---- MODULE Spec2Model ----
(***************************************************************************)
(* A model of the ASX tapes arcade runtime: the sandboxed filesystem       *)
(* handlers and the /xjson/run route, the two backend routers, the SCXQ2   *)
(* codec, the key-value store, the K'UHUL device scheduler and the         *)
(* multi-judge tribunal.                                                   *)
(*                                                                         *)
(* The subsystems share no state.  Each has its own variables, its own     *)
(* next-state relation and its own specification (SpecFs, SpecRouter, ...),*)
(* and leaves the variables of the others unchanged.                       *)
(***************************************************************************)
EXTENDS Integers, Sequences, FiniteSets, TLC

VARIABLES
  \* ---- filesystem handlers behind /xjson/run
  fsPc,        \* "idle" | "responded": position of the request handler
  fsReq,       \* the program of the request being answered
  fsTouched,   \* resolved paths on which the handler ran a file operation
  fsResponse   \* the JSON envelope written to the client

fsVars == <<fsPc, fsReq, fsTouched, fsResponse>>

VARIABLES
  \* ---- backend routers (KHL and BackendRouter)
  rtStatus,        \* what each remote backend does with a request right now
  khlInitialized,  \* KHL.state.initialized
  khlMode,         \* KHL.runtime.mode: "null" | "server" | "browser"
  khlBackend,      \* name of KHL.runtime.backend, "null" before detection
  rtCall,          \* the last finished call: who made it and how it went
  khlFailed,       \* remote backends that failed a probe or a call of KHL
  brFailed         \* remote backends that failed a call of BackendRouter

rtVars == <<rtStatus, khlInitialized, khlMode, khlBackend, rtCall, khlFailed, brFailed>>

VARIABLES
  \* ---- SCXQ2 codec handlers
  cdPc,        \* "idle" | "encoded" | "decoded"
  cdInput,     \* input.data of scxq2_encode
  cdMode,      \* input.mode, the same for the encode and the decode call
  cdEncoded,   \* result of scxq2_encode
  cdDecoded    \* result of scxq2_decode on the compressed output

cdVars == <<cdPc, cdInput, cdMode, cdEncoded, cdDecoded>>

VARIABLES
  \* ---- the store handler
  storage,     \* the handler's Map, as the sequence of its entries in insertion order
  stHistory,   \* the store requests served so far, oldest first
  stResult     \* the answer to the latest request

stVars == <<storage, stHistory, stResult>>

VARIABLES
  \* ---- KuhulScheduler
  scPc,        \* "idle" | "decided" | "executing" | "returning" | "throwing" | "done"
  systemState, \* [cpu, gpu]: the loads in percent
  metrics,     \* [total_jobs, successful_jobs, failed_jobs, latency_sum]
  scJob,       \* the job being scheduled and the configuration it runs under
  scStack,     \* the scheduleRombosJob activations awaiting executeJob, innermost last
  scDecision,  \* the routing decision being executed, or the one a direct call returned
  scRequeues,  \* how often executeJob re-entered scheduleRombosJob for this job
  scOutcome    \* what the top-level call returned or threw

scVars == <<scPc, systemState, metrics, scJob, scStack, scDecision, scRequeues, scOutcome>>

VARIABLES
  \* ---- KUHUL of the micronaut runtime
  kuPc,        \* "idle" | "sleeping" | "returned"
  kuProfile,   \* SystemProfiler.profile: [cpu, igpu, webgpu]
  kuPlan,      \* the plan of the latest routeLLM
  kuRequeues   \* how often scheduleJob re-entered itself for this job

kuVars == <<kuPc, kuProfile, kuPlan, kuRequeues>>

VARIABLES
  \* ---- Tribunal
  tbPc,            \* "idle" | "waiting" | "evaluated"
  judges,          \* Tribunal.judges: id -> [status, totalVotes, agreements, disagreements]
  sessions,        \* Tribunal.sessions in insertion order: the verdict each session holds
  disagreementLog, \* Tribunal.disagreementLog
  tbSession        \* what the latest Tribunal.evaluate returned or threw

tbVars == <<tbPc, judges, sessions, disagreementLog, tbSession>>

VARIABLES
  \* ---- the agents handlers of the server
  agPc,            \* "idle" | "answered"
  agents,          \* the module's agent registry; empty until loadAgents ran
  agResult         \* the answer of the latest agents_tribunal request

agVars == <<agPc, agents, agResult>>

VARIABLES
  \* ---- the disagreement histories
  hsSessions,      \* how many disagreeing sessions Tribunal.trackDisagreement was handed
  dtDisagreements, \* DisagreementTracker.disagreements: the ids of the records
  dtPatterns,      \* DisagreementTracker.patterns: key -> [count, examples]
  dtJudgeStats,    \* DisagreementTracker.judgeStats: judge -> totalDisagreements
  dtPersisted      \* the disagreements last written to localStorage

hsVars == <<hsSessions, dtDisagreements, dtPatterns, dtJudgeStats, dtPersisted>>

VARIABLES
  \* ---- parseVote and calculateConsensus called on their own
  cnVotes,         \* the votes parsed from the judges' responses
  cnConsensus      \* calculateConsensus of these votes

cnVars == <<cnVotes, cnConsensus>>

VARIABLES
  \* ---- the K'uhul interpreter
  kiStack,            \* KuhulInterpreter.stack
  kiVariables,        \* KuhulInterpreter.variables
  kiFunctions,        \* KuhulInterpreter.functions
  kiCurrentFunction,  \* KuhulInterpreter.currentFunction
  kiError,            \* what the last call threw, or "none"
  kiReturn,           \* the value the last call returned
  kiLast              \* the last call and its code

kiVars == <<kiStack, kiVariables, kiFunctions, kiCurrentFunction, kiError, kiReturn, kiLast>>

VARIABLES
  \* ---- the XJSON runtime
  xjVariables,     \* XJSONRuntime.variables
  xjFunctions,     \* XJSONRuntime.functions
  xjPc,            \* "idle", or where handleWhile is
  xjWhile,         \* the @while node being handled
  xjIterations,    \* iterations of handleWhile
  xjBodyRuns,      \* how often the @do of the node was processed
  xjError,         \* what the last call threw, or "none"
  xjLast           \* the last call

xjVars == <<xjVariables, xjFunctions, xjPc, xjWhile, xjIterations, xjBodyRuns, xjError, xjLast>>

VARIABLES
  \* ---- the KLH orchestrator
  klHives,         \* KLHOrchestrator.hives
  klTapes,         \* KLHOrchestrator.tapes
  klRoutes,        \* KLHOrchestrator.routes
  klAgents,        \* KLHOrchestrator.agents
  klError,         \* what the last call threw, or "none"
  klLast           \* the last call and its arguments

klVars == <<klHives, klTapes, klRoutes, klAgents, klError, klLast>>

VARIABLES
  \* ---- the GHOST registry and proxy
  ghDirs,          \* the tape directories under TAPES_DIR
  ghRegistry,      \* tapeRegistry (null before the first loadTapes)
  ghScanned,       \* the directories the scan of loadTapes met
  ghForwards,      \* forwards of the proxy in the chain of calls in flight
  ghTarget,        \* the tape the last request named
  ghResponse       \* the last response

ghVars == <<ghDirs, ghRegistry, ghScanned, ghForwards, ghTarget, ghResponse>>

VARIABLES
  \* ---- the two store handlers side by side
  spServer,        \* the Map of the server's store handler
  spCache,         \* the records of the browser's 'cache' object store
  spServerAnswer,  \* the server's answer to the last request
  spBrowserAnswer  \* the browser fallback's answer to it

spVars == <<spServer, spCache, spServerAnswer, spBrowserAnswer>>

VARIABLES
  \* ---- the loop of agents_tribunal over its judges
  jlPc,          \* "idle", "loop", "awaiting" or "answered"
  jlAgents,      \* the keys of the agents Map
  jlJudges,      \* input.judges
  jlIndex,       \* the position of the loop in jlJudges
  jlVotes,       \* the local array votes
  jlDispatched,  \* the judges evaluateWithAgent was called for, in order
  jlElapsed,     \* the positions in votes of the judges whose timer won
  jlLosers,      \* the promises that lost their race and have not settled
  jlResult       \* the answer of the call

jlVars == <<jlPc, jlAgents, jlJudges, jlIndex, jlVotes, jlDispatched,
            jlElapsed, jlLosers, jlResult>>

VARIABLES
  \* ---- loadTapes under concurrent requests
  ldRegistry,  \* tapeRegistry: null, or the keys of the Map
  ldScans,     \* the running scans: the handler awaiting each, and its next entry
  ldAnswer     \* the last result a handler returned

ldVars == <<ldRegistry, ldScans, ldAnswer>>

VARIABLES
  \* ---- TapeSystem
  tsLoaded,  \* loadedTapes: id -> the tape object of createTape
  tsError,   \* what the last call of the TapeSystem threw, or "none"
  tsLast     \* the last call of the TapeSystem

tsVars == <<tsLoaded, tsError, tsLast>>

VARIABLES
  \* ---- the Tribunal from its construction
  jpJudges,     \* Tribunal.judges: id -> status
  jpReachable,  \* the configured judges that answer a ping now
  jpPing,       \* 0 before judges.json is loaded, then the judge pinged next
  jpOutcome     \* how the last evaluate passed its test of the slate

jpVars == <<jpJudges, jpReachable, jpPing, jpOutcome>>

VARIABLES
  \* ---- handleFor of the XJSON runtime
  frPc,    \* "idle", "for" or "returned"
  frFor,   \* the @for node being handled: from, to, step and @do
  frI,     \* the loop variable i
  frRuns   \* the turns of the loop so far

frVars == <<frPc, frFor, frI, frRuns>>

vars == <<fsVars, rtVars, cdVars, stVars, scVars, kuVars, tbVars, agVars, hsVars, cnVars, kiVars, xjVars, klVars, ghVars, spVars, jlVars, ldVars, tsVars, jpVars, frVars>>

\* What a step of one subsystem leaves alone.
notFs == <<rtVars, cdVars, stVars, scVars, kuVars, tbVars, agVars, hsVars, cnVars, kiVars, xjVars, klVars, ghVars, spVars, jlVars, ldVars, tsVars, jpVars, frVars>>
notRouter == <<fsVars, cdVars, stVars, scVars, kuVars, tbVars, agVars, hsVars, cnVars, kiVars, xjVars, klVars, ghVars, spVars, jlVars, ldVars, tsVars, jpVars, frVars>>
notCodec == <<fsVars, rtVars, stVars, scVars, kuVars, tbVars, agVars, hsVars, cnVars, kiVars, xjVars, klVars, ghVars, spVars, jlVars, ldVars, tsVars, jpVars, frVars>>
notStore == <<fsVars, rtVars, cdVars, scVars, kuVars, tbVars, agVars, hsVars, cnVars, kiVars, xjVars, klVars, ghVars, spVars, jlVars, ldVars, tsVars, jpVars, frVars>>
notSched == <<fsVars, rtVars, cdVars, stVars, kuVars, tbVars, agVars, hsVars, cnVars, kiVars, xjVars, klVars, ghVars, spVars, jlVars, ldVars, tsVars, jpVars, frVars>>
notKuhul == <<fsVars, rtVars, cdVars, stVars, scVars, tbVars, agVars, hsVars, cnVars, kiVars, xjVars, klVars, ghVars, spVars, jlVars, ldVars, tsVars, jpVars, frVars>>
notTribunal == <<fsVars, rtVars, cdVars, stVars, scVars, kuVars, agVars, hsVars, cnVars, kiVars, xjVars, klVars, ghVars, spVars, jlVars, ldVars, tsVars, jpVars, frVars>>
notAgents == <<fsVars, rtVars, cdVars, stVars, scVars, kuVars, tbVars, hsVars, cnVars, kiVars, xjVars, klVars, ghVars, spVars, jlVars, ldVars, tsVars, jpVars, frVars>>
\* The histories share Tribunal.disagreementLog with the tribunal.
notHistory == <<fsVars, rtVars, cdVars, stVars, scVars, kuVars, agVars, cnVars,
                tbPc, judges, sessions, tbSession, kiVars, xjVars, klVars, ghVars, spVars, jlVars, ldVars, tsVars, jpVars, frVars>>
notConsensus == <<fsVars, rtVars, cdVars, stVars, scVars, kuVars, tbVars, agVars, hsVars, kiVars, xjVars, klVars, ghVars, spVars, jlVars, ldVars, tsVars, jpVars, frVars>>
notGlyph == <<fsVars, rtVars, cdVars, stVars, scVars, kuVars, tbVars, agVars, hsVars, cnVars, xjVars, klVars, ghVars, spVars, jlVars, ldVars, tsVars, jpVars, frVars>>
notXjson == <<fsVars, rtVars, cdVars, stVars, scVars, kuVars, tbVars, agVars, hsVars, cnVars, kiVars, klVars, ghVars, spVars, jlVars, ldVars, tsVars, jpVars, frVars>>
notXjsonGlyph == <<fsVars, rtVars, cdVars, stVars, scVars, kuVars, tbVars, agVars, hsVars, cnVars, klVars, ghVars, spVars, jlVars, ldVars, tsVars, jpVars, frVars>>
notKlh == <<fsVars, rtVars, cdVars, stVars, scVars, kuVars, tbVars, agVars, hsVars, cnVars, kiVars, xjVars, ghVars, spVars, jlVars, ldVars, tsVars, jpVars, frVars>>
notGhost == <<fsVars, rtVars, cdVars, stVars, scVars, kuVars, tbVars, agVars, hsVars, cnVars, kiVars, xjVars, klVars, spVars, jlVars, ldVars, tsVars, jpVars, frVars>>
notPair == <<fsVars, rtVars, cdVars, stVars, scVars, kuVars, tbVars, agVars, hsVars, cnVars, kiVars, xjVars, klVars, ghVars, jlVars, ldVars, tsVars, jpVars, frVars>>
notLoop == <<fsVars, rtVars, cdVars, stVars, scVars, kuVars, tbVars, agVars, hsVars, cnVars, kiVars, xjVars, klVars, ghVars, spVars, ldVars, tsVars, jpVars, frVars>>
notLoad == <<fsVars, rtVars, cdVars, stVars, scVars, kuVars, tbVars, agVars, hsVars, cnVars, kiVars, xjVars, klVars, ghVars, spVars, jlVars, tsVars, jpVars, frVars>>
notTapeSystem == <<fsVars, rtVars, cdVars, stVars, scVars, kuVars, tbVars, agVars, hsVars, cnVars, kiVars, xjVars, ghVars, spVars, jlVars, ldVars, jpVars, frVars>>
notPing == <<fsVars, rtVars, cdVars, stVars, scVars, kuVars, tbVars, agVars, hsVars, cnVars, kiVars, xjVars, klVars, ghVars, spVars, jlVars, ldVars, tsVars, frVars>>
notFor == <<fsVars, rtVars, cdVars, stVars, scVars, kuVars, tbVars, agVars, hsVars, cnVars, kiVars, klVars, ghVars, spVars, jlVars, ldVars, tsVars, jpVars>>

NoError == "none"

(***************************************************************************)
(* Strings are sequences of one-character strings, so that startsWith is   *)
(* the character prefix the source computes.                               *)
(***************************************************************************)
MaxPathLen == 3

PathChars == {"/", ".", "r", "x"}

SeqsUpTo(S, n) == UNION {[1..k -> S] : k \in 0..n}

PathInputs == SeqsUpTo(PathChars, MaxPathLen)

\* String.prototype.startsWith
StartsWith(s, p) == Len(p) <= Len(s) /\ SubSeq(s, 1, Len(p)) = p

\* The non-empty segments of a path string, split at "/".
RECURSIVE SplitPath(_, _, _)
SplitPath(s, i, cur) ==
  IF i > Len(s)
    THEN IF cur = <<>> THEN <<>> ELSE <<cur>>
    ELSE IF s[i] = "/"
           THEN (IF cur = <<>> THEN <<>> ELSE <<cur>>) \o SplitPath(s, i + 1, <<>>)
           ELSE SplitPath(s, i + 1, Append(cur, s[i]))

Segments(s) == SplitPath(s, 1, <<>>)

\* Normalisation of an absolute path's segments: "." is dropped, ".." removes
\* the segment before it and is itself dropped at the filesystem root.
RECURSIVE NormalizeSegments(_, _)
NormalizeSegments(segs, acc) ==
  IF segs = <<>> THEN acc
  ELSE LET seg == Head(segs) IN
       IF seg = <<".">> THEN NormalizeSegments(Tail(segs), acc)
       ELSE IF seg = <<".", ".">>
              THEN NormalizeSegments(Tail(segs),
                     IF acc = <<>> THEN acc ELSE SubSeq(acc, 1, Len(acc) - 1))
              ELSE NormalizeSegments(Tail(segs), Append(acc, seg))

RECURSIVE JoinSegments(_)
JoinSegments(segs) ==
  IF segs = <<>> THEN <<>> ELSE <<"/">> \o Head(segs) \o JoinSegments(Tail(segs))

AbsolutePath(segs) == IF segs = <<>> THEN <<"/">> ELSE JoinSegments(segs)

\* path.resolve(base, input): an absolute input replaces the base.
PathResolve(base, input) ==
  IF input # <<>> /\ input[1] = "/"
    THEN AbsolutePath(NormalizeSegments(Segments(input), <<>>))
    ELSE AbsolutePath(NormalizeSegments(Segments(base) \o Segments(input), <<>>))

\* The sandbox root, "/r".
BASE_DIR == <<"/", "r">>

\* resolved.startsWith(BASE_DIR)
UnderBase(resolved) == StartsWith(resolved, BASE_DIR)

\* safePath: the resolved path, or the thrown error.
safePath(inputPath) ==
  LET resolved == PathResolve(BASE_DIR, inputPath) IN
  IF ~UnderBase(resolved)
    THEN [threw |-> TRUE, path |-> resolved,
          message |-> "Access denied: Path outside allowed directory"]
    ELSE [threw |-> FALSE, path |-> resolved, message |-> NoError]

\* The directory root itself or a path below it.
InsideRoot(p) == p = BASE_DIR \/ StartsWith(p, BASE_DIR \o <<"/">>)

(***************************************************************************)
(* The filesystem handlers.  The files themselves belong to the            *)
(* environment: whether a path exists is an input of each call.  A handler *)
(* yields the paths it ran a file operation on and its result object,      *)
(* reduced to its success flag and its error message.                      *)
(***************************************************************************)
FsOk(touched) == [touched |-> touched, result |-> [success |-> TRUE, error |-> NoError]]

FsError(touched, message) ==
  [touched |-> touched, result |-> [success |-> FALSE, error |-> message]]

fs_read(filePath, exists) ==
  LET safe == safePath(filePath) IN
  IF safe.threw THEN FsError({}, safe.message)
  ELSE IF ~exists THEN FsError({safe.path}, "File not found")
  ELSE FsOk({safe.path})

fs_write(filePath) ==
  LET safe == safePath(filePath) IN
  IF safe.threw THEN FsError({}, safe.message) ELSE FsOk({safe.path})

fs_list(dirPath, exists) ==
  LET safe == safePath(dirPath) IN
  IF safe.threw THEN FsError({}, safe.message)
  ELSE IF ~exists THEN FsError({safe.path}, "Directory not found")
  ELSE FsOk({safe.path})

\* fs_exists answers {exists, path, type}: no success flag and no error.
fs_exists(checkPath) ==
  LET safe == safePath(checkPath) IN
  IF safe.threw THEN FsError({}, safe.message)
  ELSE [touched |-> {safe.path}, result |-> [success |-> FALSE, error |-> NoError]]

fs_delete(deletePath, exists) ==
  LET safe == safePath(deletePath) IN
  IF safe.threw THEN FsError({}, safe.message)
  ELSE IF ~exists THEN FsError({safe.path}, "Path not found")
  ELSE FsOk({safe.path})

\* Both paths are checked before the source is looked at.
fs_copy(from, to, exists) ==
  LET safeFrom == safePath(from)
      safeTo   == safePath(to) IN
  IF safeFrom.threw THEN FsError({}, safeFrom.message)
  ELSE IF safeTo.threw THEN FsError({}, safeTo.message)
  ELSE IF ~exists THEN FsError({safeFrom.path}, "Source not found")
  ELSE FsOk({safeFrom.path, safeTo.path})

\* readJson throws on a missing file; the catch turns it into an error result.
fs_json_read(filePath, exists) ==
  LET safe == safePath(filePath) IN
  IF safe.threw THEN FsError({}, safe.message)
  ELSE IF ~exists THEN FsError({safe.path}, "ENOENT: no such file or directory")
  ELSE FsOk({safe.path})

fs_json_write(filePath) ==
  LET safe == safePath(filePath) IN
  IF safe.threw THEN FsError({}, safe.message) ELSE FsOk({safe.path})

(***************************************************************************)
(* POST /xjson/run.  An unknown program type is answered 400; every        *)
(* handler result is wrapped as {ok: true, result}.                        *)
(***************************************************************************)
NoRequest == [type |-> "none", paths |-> <<>>]

NoResponse == [status |-> 0, ok |-> FALSE, result |-> [success |-> FALSE, error |-> NoError]]

UnknownTypes == {"fs_move", "undefined"}

\* res.end(JSON.stringify({ok: true, result}))
OkEnvelope(result) == [status |-> 200, ok |-> TRUE, result |-> result]

XjsonRunUnknown ==
  \E type \in UnknownTypes :
    /\ fsPc = "idle"
    /\ fsPc' = "responded"
    /\ fsReq' = [type |-> type, paths |-> <<>>]
    /\ fsTouched' = {}
    /\ fsResponse' = [status |-> 400, ok |-> FALSE,
                      result |-> [success |-> FALSE, error |-> "Unknown program type"]]
    /\ UNCHANGED notFs

XjsonRunFsRead ==
  \E p \in PathInputs, exists \in BOOLEAN :
    /\ fsPc = "idle"
    /\ fsPc' = "responded"
    /\ fsReq' = [type |-> "fs_read", paths |-> <<p>>]
    /\ fsTouched' = fs_read(p, exists).touched
    /\ fsResponse' = OkEnvelope(fs_read(p, exists).result)
    /\ UNCHANGED notFs

XjsonRunFsWrite ==
  \E p \in PathInputs :
    /\ fsPc = "idle"
    /\ fsPc' = "responded"
    /\ fsReq' = [type |-> "fs_write", paths |-> <<p>>]
    /\ fsTouched' = fs_write(p).touched
    /\ fsResponse' = OkEnvelope(fs_write(p).result)
    /\ UNCHANGED notFs

XjsonRunFsList ==
  \E p \in PathInputs, exists \in BOOLEAN :
    /\ fsPc = "idle"
    /\ fsPc' = "responded"
    /\ fsReq' = [type |-> "fs_list", paths |-> <<p>>]
    /\ fsTouched' = fs_list(p, exists).touched
    /\ fsResponse' = OkEnvelope(fs_list(p, exists).result)
    /\ UNCHANGED notFs

XjsonRunFsExists ==
  \E p \in PathInputs :
    /\ fsPc = "idle"
    /\ fsPc' = "responded"
    /\ fsReq' = [type |-> "fs_exists", paths |-> <<p>>]
    /\ fsTouched' = fs_exists(p).touched
    /\ fsResponse' = OkEnvelope(fs_exists(p).result)
    /\ UNCHANGED notFs

XjsonRunFsDelete ==
  \E p \in PathInputs, exists \in BOOLEAN :
    /\ fsPc = "idle"
    /\ fsPc' = "responded"
    /\ fsReq' = [type |-> "fs_delete", paths |-> <<p>>]
    /\ fsTouched' = fs_delete(p, exists).touched
    /\ fsResponse' = OkEnvelope(fs_delete(p, exists).result)
    /\ UNCHANGED notFs

XjsonRunFsCopy ==
  \E from \in PathInputs, to \in PathInputs, exists \in BOOLEAN :
    /\ fsPc = "idle"
    /\ fsPc' = "responded"
    /\ fsReq' = [type |-> "fs_copy", paths |-> <<from, to>>]
    /\ fsTouched' = fs_copy(from, to, exists).touched
    /\ fsResponse' = OkEnvelope(fs_copy(from, to, exists).result)
    /\ UNCHANGED notFs

XjsonRunFsJsonRead ==
  \E p \in PathInputs, exists \in BOOLEAN :
    /\ fsPc = "idle"
    /\ fsPc' = "responded"
    /\ fsReq' = [type |-> "fs_json_read", paths |-> <<p>>]
    /\ fsTouched' = fs_json_read(p, exists).touched
    /\ fsResponse' = OkEnvelope(fs_json_read(p, exists).result)
    /\ UNCHANGED notFs

XjsonRunFsJsonWrite ==
  \E p \in PathInputs :
    /\ fsPc = "idle"
    /\ fsPc' = "responded"
    /\ fsReq' = [type |-> "fs_json_write", paths |-> <<p>>]
    /\ fsTouched' = fs_json_write(p).touched
    /\ fsResponse' = OkEnvelope(fs_json_write(p).result)
    /\ UNCHANGED notFs

\* res.end(): the request is over and the server waits for the next one.
XjsonDone ==
  /\ fsPc = "responded"
  /\ fsPc' = "idle"
  /\ fsReq' = NoRequest
  /\ fsTouched' = {}
  /\ fsResponse' = NoResponse
  /\ UNCHANGED notFs

InitFs ==
  /\ fsPc = "idle"
  /\ fsReq = NoRequest
  /\ fsTouched = {}
  /\ fsResponse = NoResponse

NextFs ==
  \/ XjsonRunUnknown
  \/ XjsonRunFsRead
  \/ XjsonRunFsWrite
  \/ XjsonRunFsList
  \/ XjsonRunFsExists
  \/ XjsonRunFsDelete
  \/ XjsonRunFsCopy
  \/ XjsonRunFsJsonRead
  \/ XjsonRunFsJsonWrite
  \/ XjsonDone

(***************************************************************************)
(* The backend routers.  Both are configured with the same three backends. *)
(* A remote backend is "up" (answers), "down" (connection error),          *)
(* "timeout" (the request is given up by the network stack) or "http500"   *)
(* (answers with a non-2xx status); fetch rejects for "down" and           *)
(* "timeout".                                                              *)
(***************************************************************************)
Backends ==
  << [name |-> "xjson-server",     remote |-> TRUE,  priority |-> 10],
     [name |-> "xjson-server-alt", remote |-> TRUE,  priority |-> 9],
     [name |-> "browser-fallback", remote |-> FALSE, priority |-> 1] >>

RemoteNames == {Backends[i].name : i \in {j \in DOMAIN Backends : Backends[j].remote}}

BackendStates == {"up", "down", "timeout", "http500"}

\* [...backends].sort((a, b) => b.priority - a.priority), as an insertion sort.
RECURSIVE InsertByPriority(_, _)
InsertByPriority(b, sorted) ==
  IF sorted = <<>> THEN <<b>>
  ELSE IF Head(sorted).priority >= b.priority
         THEN <<Head(sorted)>> \o InsertByPriority(b, Tail(sorted))
         ELSE <<b>> \o sorted

RECURSIVE SortByPriority(_)
SortByPriority(bs) ==
  IF bs = <<>> THEN <<>>
  ELSE InsertByPriority(bs[Len(bs)], SortByPriority(SubSeq(bs, 1, Len(bs) - 1)))

sortedBackends == SortByPriority(Backends)

\* Program types, and who has a handler for each.
Endpoints == {"ping", "ghost_list", "eval_expr", "kuhul.echo", "no_such_handler"}

ServerHandlers == {"ping", "ghost_list", "eval_expr"}

BrowserFallbackHandlers == {"ping", "ghost_list"}

RouterStubEndpoints == {"kuhul.echo", "micronaut.infer"}

\* The server answers 2xx exactly for the program types it has a handler for.
FetchOk(status, backend, endpoint) ==
  status[backend] = "up" /\ endpoint \in ServerHandlers

\* detectBackend: the first backend, in descending priority, that is the
\* url-less fallback or answers the ping.
\* `failed` collects the backends whose ping failed on the way.
RECURSIVE DetectFrom(_, _, _)
DetectFrom(bs, status, failed) ==
  IF bs = <<>>
    THEN [mode |-> "browser", backend |-> sortedBackends[Len(sortedBackends)].name,
          failed |-> failed]
    ELSE IF ~Head(bs).remote
           THEN [mode |-> "browser", backend |-> Head(bs).name, failed |-> failed]
           ELSE IF FetchOk(status, Head(bs).name, "ping")
                  THEN [mode |-> "server", backend |-> Head(bs).name, failed |-> failed]
                  ELSE DetectFrom(Tail(bs), status, failed \cup {Head(bs).name})

detectBackend(status) == DetectFrom(sortedBackends, status, {})

\* window.BrowserFallback.call
BrowserFallbackCall(endpoint) ==
  IF endpoint \in BrowserFallbackHandlers THEN "handled"
  ELSE "Handler not found in browser fallback"

\* KHL.call: the backend chosen at initialisation, then the browser fallback.
KHLCallOutcome(mode, backend, status, endpoint) ==
  IF mode = "server"
    THEN IF FetchOk(status, backend, endpoint)
           THEN [attempts |-> <<backend>>, served |-> backend, result |-> "handled"]
           ELSE [attempts |-> <<backend>>, served |-> "browser-fallback",
                 result |-> BrowserFallbackCall(endpoint)]
    ELSE [attempts |-> <<>>, served |-> "browser-fallback",
          result |-> BrowserFallbackCall(endpoint)]

\* BackendRouter.browserFallback
browserFallback(endpoint) ==
  IF endpoint \in RouterStubEndpoints THEN "handled" ELSE "No backend available"

\* BackendRouter.call: the backends with a url in array order, then the stub.
RECURSIVE RouterCallFrom(_, _, _, _)
RouterCallFrom(bs, status, endpoint, tried) ==
  IF bs = <<>>
    THEN [attempts |-> tried, served |-> "browser-fallback",
          result |-> browserFallback(endpoint)]
    ELSE IF ~Head(bs).remote
           THEN RouterCallFrom(Tail(bs), status, endpoint, tried)
           ELSE IF FetchOk(status, Head(bs).name, endpoint)
                  THEN [attempts |-> Append(tried, Head(bs).name),
                        served |-> Head(bs).name, result |-> "handled"]
                  ELSE RouterCallFrom(Tail(bs), status, endpoint,
                                      Append(tried, Head(bs).name))

BackendRouterCallOutcome(status, endpoint) ==
  RouterCallFrom(Backends, status, endpoint, <<>>)

\* afterInit: the call was made through call() of a router that was ready;
\* failedBefore: the remote backends that had failed this router before it.
CallRecord(router, endpoint, status, afterInit, failedBefore, outcome) ==
  [router |-> router, endpoint |-> endpoint, status |-> status,
   afterInit |-> afterInit, failedBefore |-> failedBefore,
   attempts |-> outcome.attempts,
   served |-> outcome.served, result |-> outcome.result]

\* The backends a call attempted without getting an answer.
FailedIn(outcome) ==
  {outcome.attempts[i] : i \in DOMAIN outcome.attempts} \ {outcome.served}

\* The top-level fields of the value a served call hands back.  The server
\* answers with the envelope {ok, result} and both routers return the result
\* inside it (data.result || data): the fields are those of the handler's
\* return value.
ServerHandlerFields(endpoint) ==
  CASE endpoint = "ping"       -> {"status", "timestamp", "message"}
    [] endpoint = "ghost_list" -> {"total", "tapes"}
    [] endpoint = "eval_expr"  -> {"result", "expression", "success"}
    [] OTHER                   -> {"ok", "error", "available"}

\* window.BrowserFallback.call and its handlers.
BrowserFallbackFields(endpoint) ==
  CASE endpoint = "ping"       -> {"status", "timestamp", "message", "mode"}
    [] endpoint = "ghost_list" -> {"total", "tapes"}
    [] OTHER                   -> {"error", "endpoint", "available"}

\* BackendRouter.browserFallback
browserFallbackFields(endpoint) ==
  CASE endpoint = "kuhul.echo"      -> {"last_response"}
    [] endpoint = "micronaut.infer" -> {"text"}
    [] OTHER                        -> {"ok", "error"}

ResponseFields(call) ==
  IF call.served \in RemoteNames THEN ServerHandlerFields(call.endpoint)
  ELSE IF call.router = "KHL" THEN BrowserFallbackFields(call.endpoint)
  ELSE browserFallbackFields(call.endpoint)

NoCall ==
  [router |-> "none", endpoint |-> "none", status |-> [b \in RemoteNames |-> "down"],
   afterInit |-> FALSE, failedBefore |-> {}, attempts |-> <<>>,
   served |-> "none", result |-> "none"]

\* A remote backend starts or stops answering.
BackendChanges ==
  \E b \in RemoteNames, st \in BackendStates :
    /\ rtStatus[b] # st
    /\ rtStatus' = [rtStatus EXCEPT ![b] = st]
    /\ UNCHANGED <<khlInitialized, khlMode, khlBackend, rtCall, khlFailed, brFailed>>
    /\ UNCHANGED notRouter

\* KHL.init: detect the backend, then discover the tapes with a ghost_list call.
KHLInit ==
  /\ ~khlInitialized
  /\ LET found == detectBackend(rtStatus)
         out   == KHLCallOutcome(found.mode, found.backend, rtStatus, "ghost_list") IN
       /\ khlMode' = found.mode
       /\ khlBackend' = found.backend
       /\ rtCall' = CallRecord("KHL", "ghost_list", rtStatus, FALSE,
                                khlFailed \cup found.failed, out)
       /\ khlFailed' = khlFailed \cup found.failed \cup FailedIn(out)
  /\ khlInitialized' = TRUE
  /\ UNCHANGED <<rtStatus, brFailed>>
  /\ UNCHANGED notRouter

KHLCall ==
  \E endpoint \in Endpoints :
    /\ LET out == KHLCallOutcome(khlMode, khlBackend, rtStatus, endpoint) IN
         /\ rtCall' = CallRecord("KHL", endpoint, rtStatus, khlInitialized, khlFailed, out)
         /\ khlFailed' = khlFailed \cup FailedIn(out)
    /\ UNCHANGED <<rtStatus, khlInitialized, khlMode, khlBackend, brFailed>>
    /\ UNCHANGED notRouter

BackendRouterCall ==
  \E endpoint \in Endpoints :
    /\ LET out == BackendRouterCallOutcome(rtStatus, endpoint) IN
         /\ rtCall' = CallRecord("BackendRouter", endpoint, rtStatus, TRUE, brFailed, out)
         /\ brFailed' = brFailed \cup FailedIn(out)
    /\ UNCHANGED <<rtStatus, khlInitialized, khlMode, khlBackend, khlFailed>>
    /\ UNCHANGED notRouter

InitRouter ==
  /\ rtStatus = [b \in RemoteNames |-> "up"]
  /\ khlInitialized = FALSE
  /\ khlMode = "null"
  /\ khlBackend = "null"
  /\ rtCall = NoCall
  /\ khlFailed = {}
  /\ brFailed = {}

NextRouter ==
  \/ BackendChanges
  \/ KHLInit
  \/ KHLCall
  \/ BackendRouterCall

(***************************************************************************)
(* The SCXQ2 codec.  A text is a sequence of tokens: words, single spaces  *)
(* and the codec's own symbols; the concatenation of the tokens is the     *)
(* string.  "@" stands for the symbol character U+27C1, "@sep", "@null",   *)
(* "@true" and "@false" for U+27C2 .. U+27C5.  A JSON text is a sequence   *)
(* of the same tokens and of the JSON punctuation.                         *)
(***************************************************************************)
MaxTextLen == 2

TextTokens == {"the", "The", "cat", " ", "@t"}

Texts == SeqsUpTo(TextTokens, MaxTextLen)

ShortTexts == SeqsUpTo(TextTokens, 1)

WordTokens == {"the", "The", "cat", "and", "null", "true", "false"}

\* The token's first (last) character is a word character, \w.
StartsWordChar(tok) == tok \in WordTokens

EndsWordChar(tok) == tok \in WordTokens \/ tok = "@t" \/ tok = "@a"

\* The 'i' flag of the regular expressions.
LowerCase(tok) == IF tok = "The" THEN "the" ELSE tok

\* commonWords of compressText and symbolMap of decompressText, in order.
commonWords ==
  << <<"the", "@t">>, <<"and", "@a">>, <<"for", "@f">>, <<"with", "@w">>,
     <<"this", "@h">>, <<"that", "@T">>, <<"from", "@F">>, <<"have", "@H">>,
     <<"will", "@W">>, <<"your", "@Y">> >>

\* text.replace(new RegExp(`\\b${word}\\b`, 'gi'), symbol)
ReplaceWord(text, word, symbol) ==
  [i \in DOMAIN text |->
     IF /\ LowerCase(text[i]) = word
        /\ (i = 1 \/ ~EndsWordChar(text[i - 1]))
        /\ (i = Len(text) \/ ~StartsWordChar(text[i + 1]))
       THEN symbol ELSE text[i]]

RECURSIVE CompressWords(_, _)
CompressWords(text, k) ==
  IF k > Len(commonWords) THEN text
  ELSE CompressWords(ReplaceWord(text, commonWords[k][1], commonWords[k][2]), k + 1)

compressText(text) == CompressWords(text, 1)

\* expanded.replace(new RegExp(symbol, 'g'), word)
ReplaceSymbol(text, symbol, word) ==
  [i \in DOMAIN text |-> IF text[i] = symbol THEN word ELSE text[i]]

RECURSIVE ExpandSymbols(_, _)
ExpandSymbols(text, k) ==
  IF k > Len(commonWords) THEN text
  ELSE ExpandSymbols(ReplaceSymbol(text, commonWords[k][2], commonWords[k][1]), k + 1)

decompressText(compressed) == ExpandSymbols(compressed, 1)

\* JSON values: strings, the three literals, objects of one string property
\* and arrays of two strings.
JsonString(a) == [type |-> "string", key |-> "", a |-> a, b |-> <<>>]

JsonLiteral(name) == [type |-> name, key |-> "", a |-> <<>>, b |-> <<>>]

JsonObject(key, a) == [type |-> "object", key |-> key, a |-> a, b |-> <<>>]

JsonArray(a, b) == [type |-> "array", key |-> "", a |-> a, b |-> b]

JsonKeys == {"cat", "the"}

JsonValues ==
  {JsonString(a) : a \in Texts}
    \cup {JsonLiteral(n) : n \in {"null", "true", "false"}}
    \cup {JsonObject(k, a) : k \in JsonKeys, a \in ShortTexts}
    \cup {JsonArray(a, b) : a \in ShortTexts, b \in ShortTexts}

Quoted(a) == <<"\"">> \o a \o <<"\"">>

JsonStringify(v) ==
  CASE v.type = "string" -> Quoted(v.a)
    [] v.type = "object" -> <<"{">> \o Quoted(<<v.key>>) \o <<":">> \o Quoted(v.a) \o <<"}">>
    [] v.type = "array"  -> <<"[">> \o Quoted(v.a) \o <<",">> \o Quoted(v.b) \o <<"]">>
    [] OTHER -> <<v.type>>

\* JSON.parse: the value whose text this is, or a SyntaxError.
JsonParse(toks) ==
  IF \E v \in JsonValues : JsonStringify(v) = toks
    THEN [threw |-> FALSE, value |-> CHOOSE v \in JsonValues : JsonStringify(v) = toks]
    ELSE [threw |-> TRUE, value |-> JsonLiteral("null")]

\* One regular-expression replace over a token sequence, left to right:
\* str.replace(/"(\w+)":/g, '@$1@') for a property name of one word.
RECURSIVE ReplaceNames(_)
ReplaceNames(toks) ==
  IF toks = <<>> THEN <<>>
  ELSE IF /\ Len(toks) >= 4
          /\ toks[1] = "\"" /\ toks[2] \in WordTokens /\ toks[3] = "\"" /\ toks[4] = ":"
         THEN <<"@", toks[2], "@">> \o ReplaceNames(SubSeq(toks, 5, Len(toks)))
         ELSE <<Head(toks)>> \o ReplaceNames(Tail(toks))

\* expanded.replace(/@(\w+)@/g, '"$1":')
RECURSIVE RestoreNames(_)
RestoreNames(toks) ==
  IF toks = <<>> THEN <<>>
  ELSE IF /\ Len(toks) >= 3
          /\ toks[1] = "@" /\ toks[2] \in WordTokens /\ toks[3] = "@"
         THEN <<"\"", toks[2], "\"", ":">> \o RestoreNames(SubSeq(toks, 4, Len(toks)))
         ELSE <<Head(toks)>> \o RestoreNames(Tail(toks))

\* .replace(/,"/g, '@sep"')
RECURSIVE ReplaceSeparators(_)
ReplaceSeparators(toks) ==
  IF toks = <<>> THEN <<>>
  ELSE IF Len(toks) >= 2 /\ toks[1] = "," /\ toks[2] = "\""
         THEN <<"@sep", "\"">> \o ReplaceSeparators(SubSeq(toks, 3, Len(toks)))
         ELSE <<Head(toks)>> \o ReplaceSeparators(Tail(toks))

\* .replace(/@sep/g, ',"')
RECURSIVE RestoreSeparators(_)
RestoreSeparators(toks) ==
  IF toks = <<>> THEN <<>>
  ELSE IF Head(toks) = "@sep"
         THEN <<",", "\"">> \o RestoreSeparators(Tail(toks))
         ELSE <<Head(toks)>> \o RestoreSeparators(Tail(toks))

ReplaceToken(toks, from, to) ==
  [i \in DOMAIN toks |-> IF toks[i] = from THEN to ELSE toks[i]]

\* .replace(/\s+/g, '')
RemoveWhitespace(toks) == SelectSeq(toks, LAMBDA t : t # " ")

compressJSON(data) ==
  RemoveWhitespace(
    ReplaceToken(
      ReplaceToken(
        ReplaceToken(
          ReplaceSeparators(ReplaceNames(JsonStringify(data))),
          "null", "@null"),
        "true", "@true"),
      "false", "@false"))

decompressJSON(compressed) ==
  JsonParse(
    ReplaceToken(
      ReplaceToken(
        ReplaceToken(
          RestoreSeparators(RestoreNames(compressed)),
          "@null", "null"),
        "@true", "true"),
      "@false", "false"))

CodecModes == {"standard", "json", "text"}

NoData == JsonLiteral("null")

\* scxq2_encode.  compressText on a value that is no string throws
\* (text.replace is not a function); the catch answers {error, mode}.
scxq2_encode(data, mode) ==
  LET asText == mode = "text" \/ (mode # "json" /\ data.type = "string") IN
  IF asText
    THEN IF data.type = "string"
           THEN [success |-> TRUE, compressed |-> compressText(data.a)]
           ELSE [success |-> FALSE, compressed |-> <<>>]
    ELSE [success |-> TRUE, compressed |-> compressJSON(data)]

\* compressed.startsWith('@'), the symbol character.
StartsWithSymbol(compressed) ==
  compressed # <<>> /\ compressed[1] \in
    {"@", "@sep", "@null", "@true", "@false"} \cup {commonWords[k][2] : k \in DOMAIN commonWords}

\* scxq2_decode
scxq2_decode(compressed, mode) ==
  LET asJson == mode = "json" \/ (mode # "text" /\ StartsWithSymbol(compressed)) IN
  IF asJson
    THEN LET parsed == decompressJSON(compressed) IN
         IF parsed.threw THEN [success |-> FALSE, data |-> NoData]
         ELSE [success |-> TRUE, data |-> parsed.value]
    ELSE [success |-> TRUE, data |-> JsonString(decompressText(compressed))]

NoEncoded == [success |-> FALSE, compressed |-> <<>>]

NoDecoded == [success |-> FALSE, data |-> NoData]

ScxqEncode ==
  \E data \in JsonValues, mode \in CodecModes :
    /\ cdPc = "idle"
    /\ cdPc' = "encoded"
    /\ cdInput' = data
    /\ cdMode' = mode
    /\ cdEncoded' = scxq2_encode(data, mode)
    /\ UNCHANGED cdDecoded
    /\ UNCHANGED notCodec

\* The compressed output of a successful encode is decoded with the same mode.
ScxqDecode ==
  /\ cdPc = "encoded"
  /\ cdEncoded.success
  /\ cdPc' = "decoded"
  /\ cdDecoded' = scxq2_decode(cdEncoded.compressed, cdMode)
  /\ UNCHANGED <<cdInput, cdMode, cdEncoded>>
  /\ UNCHANGED notCodec

ScxqDone ==
  /\ cdPc \in {"encoded", "decoded"}
  /\ cdPc' = "idle"
  /\ cdInput' = NoData
  /\ cdMode' = "standard"
  /\ cdEncoded' = NoEncoded
  /\ cdDecoded' = NoDecoded
  /\ UNCHANGED notCodec

InitCodec ==
  /\ cdPc = "idle"
  /\ cdInput = NoData
  /\ cdMode = "standard"
  /\ cdEncoded = NoEncoded
  /\ cdDecoded = NoDecoded

NextCodec ==
  \/ ScxqEncode
  \/ ScxqDecode
  \/ ScxqDone

(***************************************************************************)
(* The store handler: a closure over one Map.  A Map keeps its entries in  *)
(* insertion order; setting a key that is present keeps its position.      *)
(***************************************************************************)
MaxOps == 4

StoreKeys == {"k1", "k2"}

\* "undefined" is the value of a set request that carries no value.
StoreValues == {"v1", "undefined"}

MapHas(m, key) == \E i \in DOMAIN m : m[i].key = key

MapGet(m, key) ==
  IF MapHas(m, key)
    THEN m[CHOOSE i \in DOMAIN m : m[i].key = key].value
    ELSE "undefined"

MapSet(m, key, value) ==
  IF MapHas(m, key)
    THEN [i \in DOMAIN m |-> IF m[i].key = key THEN [key |-> key, value |-> value] ELSE m[i]]
    ELSE Append(m, [key |-> key, value |-> value])

\* A delete that leaves the entry in place.
MapDeleteKeepsEntry(m, key) == m

MapDelete(m, key) == SelectSeq(m, LAMBDA e : e.key # key)

MapKeys(m) == [i \in DOMAIN m |-> m[i].key]

StoreRequest(action, key, value) == [action |-> action, key |-> key, value |-> value]

StoreAnswer(action, success, key, value, keys, error) ==
  [action |-> action, success |-> success, key |-> key, value |-> value,
   keys |-> keys, error |-> error]

NoStoreResult == StoreAnswer("none", FALSE, "undefined", "undefined", <<>>, NoError)

StoreSet ==
  \E key \in StoreKeys, value \in StoreValues :
    /\ Len(stHistory) < MaxOps
    /\ storage' = MapSet(storage, key, value)
    /\ stHistory' = Append(stHistory, StoreRequest("set", key, value))
    /\ stResult' = StoreAnswer("set", TRUE, key, value, <<>>, NoError)
    /\ UNCHANGED notStore

StoreGet ==
  \E key \in StoreKeys :
    /\ Len(stHistory) < MaxOps
    /\ UNCHANGED storage
    /\ stHistory' = Append(stHistory, StoreRequest("get", key, "undefined"))
    /\ stResult' = StoreAnswer("get", MapHas(storage, key), key, MapGet(storage, key), <<>>, NoError)
    /\ UNCHANGED notStore

StoreDelete ==
  \E key \in StoreKeys :
    /\ Len(stHistory) < MaxOps
    /\ storage' = MapDelete(storage, key)
    /\ stHistory' = Append(stHistory, StoreRequest("delete", key, "undefined"))
    /\ stResult' = StoreAnswer("delete", MapHas(storage, key), key, "undefined", <<>>, NoError)
    /\ UNCHANGED notStore

StoreList ==
  /\ Len(stHistory) < MaxOps
  /\ UNCHANGED storage
  /\ stHistory' = Append(stHistory, StoreRequest("list", "undefined", "undefined"))
  /\ stResult' = StoreAnswer("list", TRUE, "undefined", "undefined", MapKeys(storage), NoError)
  /\ UNCHANGED notStore

StoreClear ==
  /\ Len(stHistory) < MaxOps
  /\ storage' = <<>>
  /\ stHistory' = Append(stHistory, StoreRequest("clear", "undefined", "undefined"))
  /\ stResult' = StoreAnswer("clear", TRUE, "undefined", "undefined", <<>>, NoError)
  /\ UNCHANGED notStore

\* Any other action, "has" for one.
StoreUnknownAction ==
  /\ Len(stHistory) < MaxOps
  /\ UNCHANGED storage
  /\ stHistory' = Append(stHistory, StoreRequest("has", "k1", "undefined"))
  /\ stResult' = StoreAnswer("has", FALSE, "undefined", "undefined", <<>>, "Unknown action")
  /\ UNCHANGED notStore

InitStore ==
  /\ storage = <<>>
  /\ stHistory = <<>>
  /\ stResult = NoStoreResult

NextStore ==
  \/ StoreSet
  \/ StoreGet
  \/ StoreDelete
  \/ StoreList
  \/ StoreClear
  \/ StoreUnknownAction

(***************************************************************************)
(* KuhulScheduler.  Loads and priorities are percentages: 0.75 is 75.      *)
(***************************************************************************)
MaxJobs == 2

MaxRequeues == 2

Loads == {10, 75, 90}

\* updateSystemState draws cpu.load from [0, 0.8) and gpu.load from [0, 0.6).
MockCpuLoads == {l \in Loads : l < 80}

MockGpuLoads == {l \in Loads : l < 60}

Engines == {"llama.cpp", "webgpu-rombos"}

\* deviceProfile.gpu: absent, integrated with WebGPU, dedicated without and with it.
GpuProfiles ==
  { [type |-> "none", supports_webgpu |-> FALSE],
    [type |-> "integrated", supports_webgpu |-> TRUE],
    [type |-> "dedicated", supports_webgpu |-> FALSE],
    [type |-> "dedicated", supports_webgpu |-> TRUE] }

Priorities == {50, 85, 90, 100}

\* config.scheduler.policies[route.policy]
policy == [cpu_threshold_load |-> 75, prefer_gpu_for_priority |-> 80]

\* deviceProfile.cpu.cores
ProfileCores == {8}

Max(a, b) == IF a >= b THEN a ELSE b

RoutingDecision(device, engine, delay_ms, threads) ==
  [device |-> device, engine |-> engine, delay_ms |-> delay_ms, threads |-> threads]

NoDecision == RoutingDecision("none", "none", 0, 0)

makeRoutingDecision(state, engine, pol, gpu, cores, webgpuShard, priority) ==
  LET cpuLoad == state.cpu
      gpuLoad == state.gpu
  IN
  IF cpuLoad < pol.cpu_threshold_load /\ engine = "llama.cpp"
    THEN RoutingDecision("cpu-main", "llama.cpp", 0, Max(4, cores - 2))
  ELSE IF gpu.type = "dedicated" /\ priority > 90
    THEN RoutingDecision("dgpu-0", "llama.cpp-cuda", 0, 0)
  ELSE IF gpu.supports_webgpu /\ gpuLoad < 80 /\ webgpuShard
    THEN RoutingDecision("igpu-0", "webgpu-rombos", 0, 0)
  ELSE IF cpuLoad >= pol.cpu_threshold_load /\ gpuLoad >= 80
    THEN RoutingDecision("queued", "pending", 500, 0)
  ELSE RoutingDecision("cpu-main", "llama.cpp", 0, 4)

\* A job together with the configuration it is scheduled under: the engines
\* of the routed shard and of the fallback shard, whether the route declares
\* a fallback, the device profile and whether a WebGPU shard is configured.
\* A priority of 0 is an absent job.priority.
Jobs ==
  [priority : {90, 100}, jobPriority : {0, 100}, engine : Engines,
   fallbackEngine : {"llama.cpp"}, fallback : BOOLEAN,
   gpu : GpuProfiles, cores : ProfileCores, webgpuShard : BOOLEAN]

\* The jobs handed to scheduleRombosJob: a llama.cpp shard on a machine
\* without a GPU or with an integrated one.
ScheduledJobs ==
  {job \in Jobs :
     /\ job.engine = "llama.cpp"
     /\ job.gpu.type # "dedicated"
     /\ job.webgpuShard = job.gpu.supports_webgpu}

NoJob ==
  [priority |-> 0, jobPriority |-> 0, engine |-> "llama.cpp",
   fallbackEngine |-> "llama.cpp", fallback |-> FALSE,
   gpu |-> [type |-> "none", supports_webgpu |-> FALSE], cores |-> 8,
   webgpuShard |-> FALSE]

Activation(phase, priority) == [phase |-> phase, priority |-> priority]

NoOutcome == [ok |-> FALSE, threw |-> FALSE, wrapped |-> FALSE]

\* The observed latency of a job, Date.now() - startTime, in ticks.
Latencies == {20}

\* updateAvgLatency keeps the mean of the latencies of the successful jobs;
\* the mean is latency_sum / successful_jobs.
updateAvgLatency(m, latency) == [m EXCEPT !.latency_sum = @ + latency]

\* The first part of scheduleRombosJob: updateSystemState and the decision.
RouteJob(job, state, priority) ==
  makeRoutingDecision(state, job.engine, policy, job.gpu, job.cores, job.webgpuShard, priority)

\* window.KUHUL_SCHEDULER.systemState is public: a caller overwrites the loads.
SetSystemState ==
  \E cpu \in Loads, gpu \in Loads :
    /\ scPc \in {"idle", "executing"}
    /\ systemState' = [cpu |-> cpu, gpu |-> gpu]
    /\ UNCHANGED <<scPc, metrics, scJob, scStack, scDecision, scRequeues, scOutcome>>
    /\ UNCHANGED notSched

\* The monitoring interval calls updateSystemState while a job is awaited.
MonitorTick ==
  \E cpu \in MockCpuLoads, gpu \in MockGpuLoads :
    /\ scPc = "executing"
    /\ systemState' = [cpu |-> cpu, gpu |-> gpu]
    /\ UNCHANGED <<scPc, metrics, scJob, scStack, scDecision, scRequeues, scOutcome>>
    /\ UNCHANGED notSched

\* A direct call of makeRoutingDecision on the current system state.
MakeRoutingDecision ==
  \E job \in Jobs, priority \in Priorities :
    /\ scPc = "idle"
    /\ job.priority = 90 /\ job.jobPriority = 0 /\ ~job.fallback
    /\ scPc' = "decided"
    /\ scJob' = [job EXCEPT !.priority = priority]
    /\ scDecision' = RouteJob(job, systemState, priority)
    /\ UNCHANGED <<systemState, metrics, scStack, scRequeues, scOutcome>>
    /\ UNCHANGED notSched

\* scheduleRombosJob(job, priority) up to the call of executeJob.
ScheduleRombosJob ==
  \E job \in ScheduledJobs, cpu \in MockCpuLoads, gpu \in MockGpuLoads :
    /\ scPc = "idle"
    /\ metrics.total_jobs < MaxJobs
    /\ scPc' = "executing"
    /\ systemState' = [cpu |-> cpu, gpu |-> gpu]
    /\ scJob' = job
    /\ scStack' = <<Activation("try", job.priority)>>
    /\ scDecision' = RouteJob(job, [cpu |-> cpu, gpu |-> gpu], job.priority)
    /\ scRequeues' = 0
    /\ scOutcome' = NoOutcome
    /\ UNCHANGED metrics
    /\ UNCHANGED notSched

\* executeJob on a queued decision: sleep, then scheduleRombosJob(job,
\* job.priority || 0.9), which runs up to its own call of executeJob.
ExecuteJobQueued ==
  \E cpu \in MockCpuLoads, gpu \in MockGpuLoads :
    LET priority == IF scJob.jobPriority = 0 THEN 90 ELSE scJob.jobPriority IN
    /\ scPc = "executing"
    /\ scDecision.device = "queued"
    /\ scRequeues < MaxRequeues
    /\ systemState' = [cpu |-> cpu, gpu |-> gpu]
    /\ scStack' = Append(scStack, Activation("try", priority))
    /\ scDecision' = RouteJob(scJob, [cpu |-> cpu, gpu |-> gpu], priority)
    /\ scRequeues' = scRequeues + 1
    /\ UNCHANGED <<scPc, metrics, scJob, scOutcome>>
    /\ UNCHANGED notSched

\* executeHTTP or executeWebGPU answers.
ExecuteJobSucceeds ==
  /\ scPc = "executing"
  /\ scDecision.device \in {"cpu-main", "dgpu-0", "igpu-0"}
  /\ scPc' = "returning"
  /\ UNCHANGED <<systemState, metrics, scJob, scStack, scDecision, scRequeues, scOutcome>>
  /\ UNCHANGED notSched

\* executeHTTP or executeWebGPU throws.
ExecuteJobFails ==
  /\ scPc = "executing"
  /\ scDecision.device \in {"cpu-main", "dgpu-0", "igpu-0"}
  /\ scPc' = "throwing"
  /\ UNCHANGED <<systemState, metrics, scJob, scStack, scDecision, scRequeues, scOutcome>>
  /\ UNCHANGED notSched

\* executeJob returned to the innermost activation: in its try block the
\* metrics are updated and {ok: true, ...} is returned; in its catch block
\* the fallback's result is returned as it is.
ScheduleReturns ==
  \E latency \in Latencies :
    LET top == scStack[Len(scStack)]
        rest == SubSeq(scStack, 1, Len(scStack) - 1)
    IN
    /\ scPc = "returning"
    /\ scStack # <<>>
    /\ metrics' = IF top.phase = "try"
                    THEN updateAvgLatency(
                           [metrics EXCEPT !.total_jobs = @ + 1, !.successful_jobs = @ + 1],
                           latency)
                    ELSE metrics
    /\ scStack' = rest
    /\ scPc' = IF rest = <<>> THEN "done" ELSE "returning"
    /\ scOutcome' = [ok |-> TRUE, threw |-> FALSE, wrapped |-> top.phase = "try"]
    /\ UNCHANGED <<systemState, scJob, scDecision, scRequeues>>
    /\ UNCHANGED notSched

\* executeJob threw into the try block of the innermost activation: the
\* failure is counted; with a fallback the fallback decision is executed,
\* without one the error is thrown on.
ScheduleCatches ==
  LET top == scStack[Len(scStack)]
      rest == SubSeq(scStack, 1, Len(scStack) - 1)
      fallbackJob == [scJob EXCEPT !.engine = scJob.fallbackEngine]
  IN
  /\ scPc = "throwing"
  /\ scStack # <<>>
  /\ top.phase = "try"
  /\ metrics' = [metrics EXCEPT !.total_jobs = @ + 1, !.failed_jobs = @ + 1]
  /\ IF scJob.fallback
       THEN /\ scStack' = Append(rest, Activation("catch", top.priority))
            /\ scDecision' = RouteJob(fallbackJob, systemState, (top.priority * 8) \div 10)
            /\ scPc' = "executing"
            /\ UNCHANGED scOutcome
       ELSE /\ scStack' = rest
            /\ scPc' = IF rest = <<>> THEN "done" ELSE "throwing"
            /\ scOutcome' = [ok |-> FALSE, threw |-> TRUE, wrapped |-> FALSE]
            /\ UNCHANGED scDecision
  /\ UNCHANGED <<systemState, scJob, scRequeues>>
  /\ UNCHANGED notSched

\* executeJob of the fallback threw out of the catch block.
ScheduleRethrows ==
  LET top == scStack[Len(scStack)]
      rest == SubSeq(scStack, 1, Len(scStack) - 1)
  IN
  /\ scPc = "throwing"
  /\ scStack # <<>>
  /\ top.phase = "catch"
  /\ scStack' = rest
  /\ scPc' = IF rest = <<>> THEN "done" ELSE "throwing"
  /\ scOutcome' = [ok |-> FALSE, threw |-> TRUE, wrapped |-> FALSE]
  /\ UNCHANGED <<systemState, metrics, scJob, scDecision, scRequeues>>
  /\ UNCHANGED notSched

\* The caller has its answer.
SchedulerDone ==
  /\ scPc \in {"done", "decided"}
  /\ scPc' = "idle"
  /\ scJob' = NoJob
  /\ scStack' = <<>>
  /\ scDecision' = NoDecision
  /\ scRequeues' = 0
  /\ scOutcome' = NoOutcome
  /\ UNCHANGED <<systemState, metrics>>
  /\ UNCHANGED notSched

InitSched ==
  /\ scPc = "idle"
  /\ systemState = [cpu |-> 0, gpu |-> 0]
  /\ metrics = [total_jobs |-> 0, successful_jobs |-> 0, failed_jobs |-> 0, latency_sum |-> 0]
  /\ scJob = NoJob
  /\ scStack = <<>>
  /\ scDecision = NoDecision
  /\ scRequeues = 0
  /\ scOutcome = NoOutcome

NextSched ==
  \/ SetSystemState
  \/ MonitorTick
  \/ MakeRoutingDecision
  \/ ScheduleRombosJob
  \/ ExecuteJobQueued
  \/ ExecuteJobSucceeds
  \/ ExecuteJobFails
  \/ ScheduleReturns
  \/ ScheduleCatches
  \/ ScheduleRethrows
  \/ SchedulerDone

(***************************************************************************)
(* KUHUL of the micronaut runtime: routeLLM and scheduleJob over the       *)
(* exported system profile.                                                *)
(***************************************************************************)
MaxKuhulRequeues == 10

Plan(device, delay) == [device |-> device, delay |-> delay]

NoPlan == Plan("none", 0)

routeLLM(profile) ==
  LET cpu == profile.cpu
      gpu == profile.igpu
      hasWebGPU == profile.webgpu
  IN
  IF cpu < 75 THEN Plan("cpu", 0)
  ELSE IF hasWebGPU /\ gpu < 80 THEN Plan("webgpu", 0)
  ELSE Plan("queued", 500)

\* SystemProfiler.init: the WebGPU probe, and the load estimate of 0.1.
SystemProfilerInit ==
  \E webgpu \in BOOLEAN :
    /\ kuProfile' = [kuProfile EXCEPT !.webgpu = webgpu, !.cpu = 10]
    /\ UNCHANGED <<kuPc, kuPlan, kuRequeues>>
    /\ UNCHANGED notKuhul

\* The profile is exported (MICRONAUT_KUHUL.SystemProfiler, KUHUL.system):
\* a caller records the load it observes.
ProfileWrite ==
  \E cpu \in Loads, igpu \in Loads :
    /\ kuProfile' = [kuProfile EXCEPT !.cpu = cpu, !.igpu = igpu]
    /\ UNCHANGED <<kuPc, kuPlan, kuRequeues>>
    /\ UNCHANGED notKuhul

\* KUHUL.scheduleJob(job) up to its return or its sleep.
KuhulScheduleJob ==
  LET plan == routeLLM(kuProfile) IN
  /\ kuPc = "idle"
  /\ kuPlan' = plan
  /\ kuRequeues' = 0
  /\ kuPc' = IF plan.device = "queued" THEN "sleeping" ELSE "returned"
  /\ UNCHANGED kuProfile
  /\ UNCHANGED notKuhul

\* The delay has passed: scheduleJob(job, priority) is entered again.
KuhulRequeue ==
  LET plan == routeLLM(kuProfile) IN
  /\ kuPc = "sleeping"
  /\ kuRequeues < MaxKuhulRequeues
  /\ kuRequeues' = kuRequeues + 1
  /\ kuPlan' = plan
  /\ kuPc' = IF plan.device = "queued" THEN "sleeping" ELSE "returned"
  /\ UNCHANGED kuProfile
  /\ UNCHANGED notKuhul

KuhulDone ==
  /\ kuPc = "returned"
  /\ kuPc' = "idle"
  /\ kuPlan' = NoPlan
  /\ kuRequeues' = 0
  /\ UNCHANGED kuProfile
  /\ UNCHANGED notKuhul

InitKuhul ==
  /\ kuPc = "idle"
  /\ kuProfile = [cpu |-> 0, igpu |-> 0, webgpu |-> FALSE]
  /\ kuPlan = NoPlan
  /\ kuRequeues = 0

NextKuhul ==
  \/ SystemProfilerInit
  \/ ProfileWrite
  \/ KuhulScheduleJob
  \/ KuhulRequeue
  \/ KuhulDone

(***************************************************************************)
(* Tribunal.  Confidences are percentages: 0.5 is 50.  A consensus         *)
(* confidence is a fraction [num, den].                                    *)
(***************************************************************************)
MaxSessions == 2

\* config.judges of judges.json, in the order of the file.
JudgeOrder == <<"cline", "janus">>

JudgeIds == {JudgeOrder[i] : i \in DOMAIN JudgeOrder}

\* What a judge answers to an evaluate request: an HTTP error or a failed
\* fetch, or a response with one of these texts, with or without a
\* "confidence: 0.9" or a "confidence: 150" in it.
JudgeResponses ==
  [ok : {TRUE}, text : {"lgtm", "rejected", "fine"}, confidence : {-1, 90, 15000}]
    \cup {[ok |-> FALSE, text |-> "", confidence |-> -1]}

\* verdictPatterns, tried in order; the first that matches the text wins.
parseVote(response) ==
  [verdict |-> CASE response.text = "lgtm" -> "APPROVE"
                 [] response.text = "rejected" -> "REJECT"
                 [] OTHER -> "UNKNOWN",
   confidence |-> IF response.confidence = -1 THEN 50
                  ELSE IF response.confidence > 100 THEN response.confidence \div 100
                  ELSE response.confidence]

SessionVote(judgeId, vote) ==
  [judgeId |-> judgeId, verdict |-> vote.verdict, confidence |-> vote.confidence]

\* The votes of the judges that answered, in the slate's order
\* (Promise.allSettled keeps the order of the promises).
RECURSIVE CollectVotes(_, _)
CollectVotes(slate, responses) ==
  IF slate = <<>> THEN <<>>
  ELSE LET id == Head(slate) IN
       (IF responses[id].ok THEN <<SessionVote(id, parseVote(responses[id]))>> ELSE <<>>)
         \o CollectVotes(Tail(slate), responses)

CountVerdict(votes, verdict) ==
  Cardinality({i \in DOMAIN votes : votes[i].verdict = verdict})

RECURSIVE SumConfidence(_)
SumConfidence(votes) ==
  IF votes = <<>> THEN 0 ELSE Head(votes).confidence + SumConfidence(Tail(votes))

\* Math.round(x / y * 100)
RoundPercent(x, y) == (200 * x + y) \div (2 * y)

NoConsensus ==
  [verdict |-> "null", confidence |-> [num |-> 0, den |-> 1], agreementRate |-> 0,
   hasDisagreement |-> FALSE, votes |-> 0]

\* sortedVerdicts[0]: the verdicts are counted in the order of their first
\* vote and sorted by count, stably; the first of the most frequent wins.
calculateConsensus(votes) ==
  IF Len(votes) = 0
    THEN [verdict |-> "NO_QUORUM", confidence |-> [num |-> 0, den |-> 1],
          agreementRate |-> 0, hasDisagreement |-> FALSE, votes |-> 0]
    ELSE
      LET count(i) == CountVerdict(votes, votes[i].verdict)
          first == CHOOSE i \in DOMAIN votes :
                     /\ \A j \in DOMAIN votes : count(j) <= count(i)
                     /\ \A j \in DOMAIN votes : (count(j) = count(i)) => i <= j
          majorityCount == count(first)
          agreementRate == RoundPercent(majorityCount, Len(votes))
      IN [verdict |-> votes[first].verdict,
          confidence |-> [num |-> 6 * SumConfidence(votes) + 4 * agreementRate * Len(votes),
                          den |-> 1000 * Len(votes)],
          agreementRate |-> agreementRate,
          hasDisagreement |-> \E i, j \in DOMAIN votes : votes[i].verdict # votes[j].verdict,
          votes |-> Len(votes)]

\* A trackDisagreement that writes nothing.
trackDisagreementSkipped(log, sessionId, consensus) == log

\* Keep only the last 100 disagreements.
trackDisagreement(log, sessionId, consensus) ==
  LET pushed == Append(log, [sessionId |-> sessionId, consensus |-> consensus.verdict,
                             agreementRate |-> consensus.agreementRate])
  IN IF Len(pushed) > 100 THEN Tail(pushed) ELSE pushed

Voted(votes, id) == \E i \in DOMAIN votes : votes[i].judgeId = id

VerdictOf(votes, id) == votes[CHOOSE i \in DOMAIN votes : votes[i].judgeId = id].verdict

\* judge.totalVotes++ for every vote, then updateJudgeStats.
updateJudgeStats(js, votes, majorityVerdict) ==
  [id \in DOMAIN js |->
     IF ~Voted(votes, id) THEN js[id]
     ELSE [js[id] EXCEPT
             !.totalVotes = @ + 1,
             !.agreements = IF VerdictOf(votes, id) = majorityVerdict THEN @ + 1 ELSE @,
             !.disagreements = IF VerdictOf(votes, id) = majorityVerdict THEN @ ELSE @ + 1]]

OnlineJudges(js) == SelectSeq(JudgeOrder, LAMBDA id : js[id].status = "online")

NoSession == [threw |-> FALSE, votes |-> <<>>, consensus |-> NoConsensus]

\* pingJudges: every judge is online or offline as its ping goes.
PingJudges ==
  \E status \in [JudgeIds -> {"online", "offline"}] :
    /\ tbPc = "idle"
    /\ judges' = [id \in JudgeIds |-> [judges[id] EXCEPT !.status = status[id]]]
    /\ UNCHANGED <<tbPc, sessions, disagreementLog, tbSession>>
    /\ UNCHANGED notTribunal

\* evaluate with no judge online: the session is stored, then the call throws.
TribunalEvaluateNoJudges ==
  /\ tbPc = "idle"
  /\ Len(sessions) < MaxSessions
  /\ OnlineJudges(judges) = <<>>
  /\ tbPc' = "evaluated"
  /\ sessions' = Append(sessions, "null")
  /\ tbSession' = [threw |-> TRUE, votes |-> <<>>, consensus |-> NoConsensus]
  /\ UNCHANGED <<judges, disagreementLog>>
  /\ UNCHANGED notTribunal

\* evaluate with a slate of online judges.
TribunalEvaluate ==
  \E responses \in [JudgeIds -> JudgeResponses] :
    LET slate == OnlineJudges(judges)
        votes == CollectVotes(slate, responses)
        consensus == calculateConsensus(votes)
    IN
    /\ tbPc = "idle"
    /\ Len(sessions) < MaxSessions
    /\ slate # <<>>
    /\ \A id \in JudgeIds : judges[id].status = "offline" => ~responses[id].ok
    /\ tbPc' = "evaluated"
    /\ sessions' = Append(sessions, consensus.verdict)
    /\ disagreementLog' = IF consensus.hasDisagreement
                            THEN trackDisagreement(disagreementLog, Len(sessions) + 1, consensus)
                            ELSE disagreementLog
    /\ judges' = updateJudgeStats(judges, votes, consensus.verdict)
    /\ tbSession' = [threw |-> FALSE, votes |-> votes, consensus |-> consensus]
    /\ UNCHANGED notTribunal

\* evaluate with a slate in which a judge never answers: its fetch stays
\* pending, Promise.allSettled never settles, and the call stays in its await
\* with the session stored and nothing else done.
TribunalEvaluateWaits ==
  \E silent \in JudgeIds :
    /\ tbPc = "idle"
    /\ Len(sessions) < MaxSessions
    /\ judges[silent].status = "online"
    /\ tbPc' = "waiting"
    /\ sessions' = Append(sessions, "null")
    /\ tbSession' = [threw |-> FALSE, votes |-> <<>>, consensus |-> NoConsensus]
    /\ UNCHANGED <<judges, disagreementLog>>
    /\ UNCHANGED notTribunal

\* The caller has its session.
TribunalDone ==
  /\ tbPc = "evaluated"
  /\ tbPc' = "idle"
  /\ tbSession' = NoSession
  /\ UNCHANGED <<judges, sessions, disagreementLog>>
  /\ UNCHANGED notTribunal

InitTribunal ==
  /\ tbPc = "idle"
  /\ judges = [id \in JudgeIds |->
                 [status |-> "offline", totalVotes |-> 0, agreements |-> 0, disagreements |-> 0]]
  /\ sessions = <<>>
  /\ disagreementLog = <<>>
  /\ tbSession = NoSession

NextTribunal ==
  \/ PingJudges
  \/ TribunalEvaluateNoJudges
  \/ TribunalEvaluate
  \/ TribunalEvaluateWaits
  \/ TribunalDone

(***************************************************************************)
(* The agents_tribunal handler of the server.                              *)
(***************************************************************************)
MaxJudgeList == 2

\* loadAgents: the agents whose configuration files exist, or the mock.
loadAgents(loaded, clineExists, rombosExists) ==
  IF loaded # {} THEN loaded
  ELSE LET found == (IF clineExists THEN {"cline"} ELSE {})
                      \cup (IF rombosExists THEN {"rombos"} ELSE {})
       IN IF found = {} THEN {"default"} ELSE found

\* input.judges; it defaults to ['cline', 'rombos'].
JudgeLists == SeqsUpTo({"cline", "rombos", "mx2lm"}, MaxJudgeList)

\* evaluateWithAgent answers approve or reject, with a confidence drawn
\* from [0.5, 1).
MockResults == [threw : {FALSE}, verdict : {"approve", "reject"}, confidence : {50, 90}]

\* A catch block that pushed the vote of the try block.
AgentVoteCounted(judge, result) ==
  [judge |-> judge,
   verdict |-> IF result.verdict = "" THEN "abstain" ELSE result.verdict,
   confidence |-> IF result.confidence = 0 THEN 50 ELSE result.confidence]

\* One turn of the loop over the judges: the vote pushed for a judge whose
\* race gave this result or threw.
AgentVote(judge, result) ==
  IF result.threw
    THEN [judge |-> judge, verdict |-> "error", confidence |-> 0]
    ELSE [judge |-> judge,
          verdict |-> IF result.verdict = "" THEN "abstain" ELSE result.verdict,
          confidence |-> IF result.confidence = 0 THEN 50 ELSE result.confidence]

RECURSIVE AgentVotes(_, _, _, _)
AgentVotes(list, k, known, results) ==
  IF k > Len(list) THEN <<>>
  ELSE (IF list[k] \in known THEN <<AgentVote(list[k], results[k])>> ELSE <<>>)
         \o AgentVotes(list, k + 1, known, results)

NonErrorVotes(votes) ==
  SelectSeq(votes, LAMBDA v : v.verdict # "error" /\ v.verdict # "abstain")

\* consensus = approved.length / verdicts.length, which is NaN for 0 / 0;
\* NaN > 0.5 is false.
agents_tribunal(votes) ==
  LET verdicts == NonErrorVotes(votes)
      approved == SelectSeq(verdicts, LAMBDA v : v.verdict = "approve")
      consensus == [num |-> Len(approved), den |-> Len(verdicts)]
  IN [votes |-> votes,
      consensus |-> consensus,
      final_verdict |-> IF consensus.den # 0 /\ 2 * consensus.num > consensus.den
                          THEN "approve" ELSE "reject"]

NoAgentsResult ==
  [votes |-> <<>>, consensus |-> [num |-> 0, den |-> 1], final_verdict |-> "none"]

AgentsTribunal ==
  \E list \in JudgeLists, clineExists \in BOOLEAN, rombosExists \in BOOLEAN :
  \E results \in [DOMAIN list -> MockResults] :
    LET known == loadAgents(agents, clineExists, rombosExists) IN
    /\ agPc = "idle"
    /\ agPc' = "answered"
    /\ agents' = known
    /\ agResult' = agents_tribunal(AgentVotes(list, 1, known, results))
    /\ UNCHANGED notAgents

\* The caller has its answer.
AgentsDone ==
  /\ agPc = "answered"
  /\ agPc' = "idle"
  /\ agResult' = NoAgentsResult
  /\ UNCHANGED agents
  /\ UNCHANGED notAgents

InitAgents ==
  /\ agPc = "idle"
  /\ agents = {}
  /\ agResult = NoAgentsResult

NextAgents ==
  \/ AgentsTribunal
  \/ AgentsDone

(***************************************************************************)
(* The disagreement histories: Tribunal.trackDisagreement and              *)
(* DisagreementTracker.log, each handed one disagreeing session after the  *)
(* other.                                                                  *)
(***************************************************************************)
MaxRecords == 102

\* The votes of a session whose judges disagree.
SplitVotes ==
  << [judgeId |-> "cline", verdict |-> "APPROVE", confidence |-> 90],
     [judgeId |-> "janus", verdict |-> "REJECT", confidence |-> 50] >>

\* this.disagreements.slice(-100)
LastHundred(seq) ==
  IF Len(seq) > 100 THEN SubSeq(seq, Len(seq) - 99, Len(seq)) ELSE seq

\* analyzePattern: the pattern of the task type, keyed <<type>>, and the
\* pattern of every pair of judges whose verdicts differ, keyed by the pair,
\* count the record and keep its id.
analyzePattern(patterns, taskType, votes, id) ==
  LET pairs == {<<votes[q[1]].judgeId, votes[q[2]].judgeId>> :
                  q \in {q \in (DOMAIN votes) \X (DOMAIN votes) :
                          q[1] < q[2] /\ votes[q[1]].verdict # votes[q[2]].verdict}}
      keys == {<<taskType>>} \cup pairs
  IN [k \in DOMAIN patterns \cup keys |->
        LET old == IF k \in DOMAIN patterns THEN patterns[k]
                   ELSE [count |-> 0, examples |-> <<>>]
        IN IF k \in keys
             THEN [count |-> old.count + 1, examples |-> Append(old.examples, id)]
             ELSE old]

\* DisagreementTracker.updateJudgeStats: stats.totalDisagreements++ for
\* every judge of the record.
trackerJudgeStats(stats, votes) ==
  LET voters == {votes[i].judgeId : i \in DOMAIN votes} IN
  [j \in DOMAIN stats \cup voters |->
     (IF j \in DOMAIN stats THEN stats[j] ELSE 0) + (IF j \in voters THEN 1 ELSE 0)]

\* Tribunal.trackDisagreement(session) for the next disagreeing session.
TrackDisagreement ==
  /\ hsSessions < MaxRecords
  /\ hsSessions' = hsSessions + 1
  /\ disagreementLog' =
       trackDisagreement(disagreementLog, hsSessions + 1, calculateConsensus(SplitVotes))
  /\ UNCHANGED <<dtDisagreements, dtPatterns, dtJudgeStats, dtPersisted>>
  /\ UNCHANGED notHistory

\* DisagreementTracker.log(session) for the next disagreeing session.
TrackerLog ==
  LET id == Len(dtDisagreements) + 1 IN
  /\ Len(dtDisagreements) < MaxRecords
  /\ dtDisagreements' = Append(dtDisagreements, id)
  /\ dtPatterns' = analyzePattern(dtPatterns, "code_review", SplitVotes, id)
  /\ dtJudgeStats' = trackerJudgeStats(dtJudgeStats, SplitVotes)
  /\ dtPersisted' = LastHundred(Append(dtDisagreements, id))
  /\ UNCHANGED <<hsSessions, disagreementLog>>
  /\ UNCHANGED notHistory

InitHistory ==
  /\ hsSessions = 0
  /\ dtDisagreements = <<>>
  /\ dtPatterns = <<>>
  /\ dtJudgeStats = <<>>
  /\ dtPersisted = <<>>

NextHistory ==
  \/ TrackDisagreement
  \/ TrackerLog

(***************************************************************************)
(* parseVote and calculateConsensus over the responses of up to MaxVotes   *)
(* judges that answered.                                                   *)
(***************************************************************************)
MaxVotes == 3

VoterIds == <<"cline", "janus", "micronauts">>

AnsweredResponses == {r \in JudgeResponses : r.ok}

ConsensusOfResponses ==
  \E n \in 1..MaxVotes :
  \E responses \in [1..n -> AnsweredResponses] :
    LET votes == [i \in 1..n |-> SessionVote(VoterIds[((i - 1) % Len(VoterIds)) + 1],
                                             parseVote(responses[i]))]
    IN
    /\ cnVotes = <<>>
    /\ cnVotes' = votes
    /\ cnConsensus' = calculateConsensus(votes)
    /\ UNCHANGED notConsensus

\* The caller has its consensus.
ConsensusDone ==
  /\ cnVotes # <<>>
  /\ cnVotes' = <<>>
  /\ cnConsensus' = calculateConsensus(<<>>)
  /\ UNCHANGED notConsensus

InitConsensus ==
  /\ cnVotes = <<>>
  /\ cnConsensus = calculateConsensus(<<>>)

NextConsensus ==
  \/ ConsensusOfResponses
  \/ ConsensusDone

(***************************************************************************)
(* The K'uhul interpreter.  A value is a number (the fraction n/d; d = 0   *)
(* stands for Infinity, -Infinity and NaN with n = 1, -1 and 0), a         *)
(* boolean (n = 1 for true), null, undefined or an object.  A token is     *)
(* [op, name, lit]: `name` is the argument of Pop, Ch'en, Yax and Sek,     *)
(* `lit` the value the text of a Wo argument parses to.                    *)
(***************************************************************************)
MaxStack == 2
MaxNum == 2

Num(n, d) == [t |-> "number", n |-> n, d |-> d]

Bool(b) == [t |-> "boolean", n |-> IF b THEN 1 ELSE 0, d |-> 1]

Null == [t |-> "null", n |-> 0, d |-> 1]

Undefined == [t |-> "undefined", n |-> 0, d |-> 1]

\* Object.prototype, the prototype of the object literal {}.
ObjectPrototype == [t |-> "object", n |-> 0, d |-> 1]

Abs(n) == IF n < 0 THEN -n ELSE n

Sign(n) == IF n < 0 THEN -1 ELSE IF n > 0 THEN 1 ELSE 0

RECURSIVE GCD(_, _)
GCD(a, b) == IF b = 0 THEN a ELSE GCD(b, a % b)

\* The number n/d in lowest terms with a positive denominator.
Fraction(n, d) ==
  IF d = 0 THEN Num(Sign(n), 0)
  ELSE LET g == GCD(Abs(n), Abs(d)) IN Num(Sign(d) * (n \div g), Abs(d) \div g)

ToNumber(v) == Num(v.n, v.d)

ToBoolean(v) ==
  CASE v.t = "number"  -> v.n # 0
    [] v.t = "boolean" -> v.n = 1
    [] v.t = "object"  -> TRUE
    [] OTHER           -> FALSE

Less(a, b) == a.n * b.d < b.n * a.d

\* The operands the model applies an operation to: finite numbers and
\* booleans.
Finite(v) == v.t \in {"number", "boolean"} /\ v.d # 0

\* The results the model keeps.
InRange(v) == v.t = "number" => (Abs(v.n) <= MaxNum /\ v.d \in {0, 1, 2})

\* obj[name] = value on a plain object: assigning a primitive to __proto__
\* is ignored, and Object.prototype is the object's prototype already.
ObjectSet(obj, name, value) ==
  IF name = "__proto__" THEN obj
  ELSE [k \in (DOMAIN obj) \cup {name} |-> IF k = name THEN value ELSE obj[k]]

\* name in obj
ObjectHas(obj, name) == name \in DOMAIN obj \/ name = "__proto__"

\* obj[name]
ObjectGet(obj, name) ==
  IF name \in DOMAIN obj THEN obj[name]
  ELSE IF name = "__proto__" THEN ObjectPrototype ELSE Undefined

BinaryOperations ==
  {"add", "sub", "mul", "div", "gt", "lt", "gte", "lte", "eq", "neq", "and", "or"}

\* The arrow functions opSek hands to binaryOp.
SekFn(operation, a, b) ==
  LET x == ToNumber(a)
      y == ToNumber(b) IN
    CASE operation = "add" -> Fraction(x.n * y.d + y.n * x.d, x.d * y.d)
      [] operation = "sub" -> Fraction(x.n * y.d - y.n * x.d, x.d * y.d)
      [] operation = "mul" -> Fraction(x.n * y.n, x.d * y.d)
      [] operation = "div" -> Fraction(x.n * y.d, x.d * y.n)
      [] operation = "gt"  -> Bool(Less(y, x))
      [] operation = "lt"  -> Bool(Less(x, y))
      [] operation = "gte" -> Bool(~Less(x, y))
      [] operation = "lte" -> Bool(~Less(y, x))
      [] operation = "eq"  -> Bool(a = b)
      [] operation = "neq" -> Bool(a # b)
      [] operation = "and" -> IF ToBoolean(a) THEN b ELSE a
      [] operation = "or"  -> IF ToBoolean(a) THEN a ELSE b

Machine(stack, variables, functions, currentFunction, error) ==
  [stack |-> stack, variables |-> variables, functions |-> functions,
   currentFunction |-> currentFunction, error |-> error]

Throw(m, error) == [m EXCEPT !.error = error]

Top(stack) == stack[Len(stack)]

DropLast(stack, k) == SubSeq(stack, 1, Len(stack) - k)

opPop(m, name) ==
  [m EXCEPT !.currentFunction = name,
            !.functions = ObjectSet(m.functions, name, <<>>)]

opWo(m, lit) == [m EXCEPT !.stack = Append(m.stack, lit)]

opChen(m, name) ==
  IF Len(m.stack) = 0 THEN Throw(m, "stack-underflow")
  ELSE [m EXCEPT !.stack = DropLast(m.stack, 1),
                 !.variables = ObjectSet(m.variables, name, Top(m.stack))]

opYax(m, name) ==
  IF ~ObjectHas(m.variables, name) THEN Throw(m, "undefined-variable")
  ELSE [m EXCEPT !.stack = Append(m.stack, ObjectGet(m.variables, name))]

binaryOp(m, operation) ==
  IF Len(m.stack) < 2 THEN Throw(m, "stack-underflow")
  ELSE LET b == m.stack[Len(m.stack)]
           a == m.stack[Len(m.stack) - 1] IN
         [m EXCEPT !.stack = Append(DropLast(m.stack, 2), SekFn(operation, a, b))]

unaryOp(m) ==
  IF Len(m.stack) < 1 THEN Throw(m, "stack-underflow")
  ELSE [m EXCEPT !.stack = Append(DropLast(m.stack, 1), Bool(~ToBoolean(Top(m.stack))))]

\* console.log(this.stack.pop()): pop of an empty array returns undefined.
opPrint(m) ==
  IF Len(m.stack) = 0 THEN m ELSE [m EXCEPT !.stack = DropLast(m.stack, 1)]

opSek(m, operation) ==
  IF operation \in BinaryOperations THEN binaryOp(m, operation)
  ELSE IF operation = "not" THEN unaryOp(m)
  ELSE IF operation = "print" THEN opPrint(m)
  ELSE Throw(m, "unknown-operation")

opXul(m) == [m EXCEPT !.currentFunction = "null"]

executeToken(m, token) ==
  CASE token.op = "Pop"  -> opPop(m, token.name)
    [] token.op = "Wo"   -> opWo(m, token.lit)
    [] token.op = "Chen" -> opChen(m, token.name)
    [] token.op = "Yax"  -> opYax(m, token.name)
    [] token.op = "Sek"  -> opSek(m, token.name)
    [] token.op = "Xul"  -> opXul(m)
    [] OTHER             -> Throw(m, "unknown-operation")

\* for (const token of tokens) this.executeToken(token): a throw ends the
\* loop and leaves what the earlier tokens did.
RECURSIVE executeTokens(_, _)
executeTokens(m, tokens) ==
  IF tokens = <<>> THEN m
  ELSE LET after == executeToken(m, Head(tokens)) IN
         IF after.error # "none" THEN after ELSE executeTokens(after, Tail(tokens))

\* The value execute returns: the top of the stack, or null.
executeValue(m) == IF Len(m.stack) > 0 THEN Top(m.stack) ELSE Null

Token(op, name, lit) == [op |-> op, name |-> name, lit |-> lit]

VariableNames == {"x", "__proto__"}

NumberLiterals == {1, 2}

Literals == {Num(n, 1) : n \in NumberLiterals} \cup {Bool(TRUE)}

Tokens ==
  {Token("Pop", "main", Null), Token("Xul", "", Null), Token("Nop", "", Null)}
    \cup {Token("Wo", "", lit) : lit \in Literals}
    \cup {Token(op, name, Null) : op \in {"Chen", "Yax"}, name \in VariableNames}
    \cup {Token("Sek", operation, Null) :
            operation \in BinaryOperations \cup {"not", "print", "pow"}}

\* [Wo a][Wo b][Sek k][Ch'en x]
ArithmeticCode(a, b, k, x) ==
  << Token("Wo", "", Num(a, 1)), Token("Wo", "", Num(b, 1)),
     Token("Sek", k, Null), Token("Chen", x, Null) >>

\* [Pop name] body [Xul]
FunctionCode(name, body) ==
  <<Token("Pop", name, Null)>> \o body \o <<Token("Xul", "", Null)>>

ArithmeticOperations == {"add", "sub", "mul", "div", "gt", "lt", "eq"}

Codes ==
  {<<token>> : token \in Tokens}
    \cup {ArithmeticCode(a, b, k, x) : a \in NumberLiterals, b \in NumberLiterals,
                                       k \in ArithmeticOperations, x \in VariableNames}
    \cup {FunctionCode("main", ArithmeticCode(1, 1, "add", "x"))}

\* The operands every operation of the code meets are finite numbers and
\* booleans, and the values it leaves are kept by the model.
RECURSIVE Modelled(_, _)
Modelled(m, tokens) ==
  IF tokens = <<>> THEN TRUE
  ELSE LET token == Head(tokens)
           after == executeToken(m, token) IN
         /\ (token.op = "Sek" /\ token.name \in BinaryOperations /\ Len(m.stack) >= 2)
              => (Finite(m.stack[Len(m.stack)]) /\ Finite(m.stack[Len(m.stack) - 1]))
         /\ Len(after.stack) <= MaxStack
         /\ \A i \in DOMAIN after.stack : InRange(after.stack[i])
         /\ (after.error = "none" => Modelled(after, Tail(tokens)))

NoCode == <<Token("none", "", Null)>>

\* interpreter.execute(code)
KuhulExecute ==
  \E code \in Codes :
    LET m     == Machine(kiStack, kiVariables, kiFunctions, kiCurrentFunction, "none")
        after == executeTokens(m, code) IN
      /\ Modelled(m, code)
      /\ kiStack' = after.stack
      /\ kiVariables' = after.variables
      /\ kiFunctions' = after.functions
      /\ kiCurrentFunction' = after.currentFunction
      /\ kiError' = after.error
      /\ kiReturn' = IF after.error = "none" THEN executeValue(after) ELSE Undefined
      /\ kiLast' = [call |-> "execute", code |-> code]
      /\ UNCHANGED notGlyph

\* interpreter.reset()
KuhulReset ==
  /\ kiStack' = <<>>
  /\ kiVariables' = <<>>
  /\ kiCurrentFunction' = "null"
  /\ kiError' = "none"
  /\ kiReturn' = Undefined
  /\ kiLast' = [call |-> "reset", code |-> NoCode]
  /\ UNCHANGED kiFunctions
  /\ UNCHANGED notGlyph

InitGlyph ==
  /\ kiStack = <<>>
  /\ kiVariables = <<>>
  /\ kiFunctions = <<>>
  /\ kiCurrentFunction = "null"
  /\ kiError = "none"
  /\ kiReturn = Undefined
  /\ kiLast = [call |-> "none", code |-> NoCode]

NextGlyph ==
  \/ KuhulExecute
  \/ KuhulReset

(***************************************************************************)
(* The XJSON runtime.  An expression is a literal or the text "${name}";   *)
(* a node is an assignment, a function definition, a call or an @while.    *)
(***************************************************************************)
maxIterations == 10000

Literal(value) == [var |-> "", value |-> value]

Reference(name) == [var |-> name, value |-> Undefined]

\* What the text "${name}" stays when no variable of that name exists.
Text == [t |-> "string", n |-> 0, d |-> 1]

\* evaluate(expr): a variable of the runtime, else one of the interpreter,
\* else the text unchanged; the text of a number is parsed back to it.
evaluate(expr, variables, interpreterVariables) ==
  IF expr.var = "" THEN expr.value
  ELSE IF ObjectHas(variables, expr.var) THEN ObjectGet(variables, expr.var)
  ELSE IF ObjectHas(interpreterVariables, expr.var)
         THEN ObjectGet(interpreterVariables, expr.var)
  ELSE Text

Condition(op, left, right) == [op |-> op, left |-> left, right |-> right]

\* evaluateCondition: a boolean, or {op, left, right}; a comparison with a
\* text that is not a number is false.
evaluateCondition(condition, variables, interpreterVariables) ==
  LET left  == evaluate(condition.left, variables, interpreterVariables)
      right == evaluate(condition.right, variables, interpreterVariables) IN
    CASE condition.op = "boolean" -> ToBoolean(condition.left.value)
      [] condition.op = "<"  -> Finite(left) /\ Finite(right) /\ Less(left, right)
      [] condition.op = ">=" -> Finite(left) /\ Finite(right) /\ ~Less(left, right)

Node(type, name, value) == [type |-> type, name |-> name, value |-> value]

NoNode == Node("none", "", Undefined)

RuntimeVariables == {"n", "m"}

RuntimeValues == {Num(0, 1), Num(1, 1)}

FunctionNames == {"f", "g"}

AssignNodes ==
  {Node("assign", name, value) : name \in RuntimeVariables, value \in RuntimeValues}

\* assignVariable
assignVariable(node, variables) == ObjectSet(variables, node.name, node.value)

\* defineFunction: {params: [], body}
defineFunction(node, functions) ==
  ObjectSet(functions, node.name, [params |-> <<>>, body |-> node.value])

Conditions ==
  { Condition("boolean", Literal(Bool(TRUE)), Literal(Bool(TRUE))),
    Condition("boolean", Literal(Bool(FALSE)), Literal(Bool(FALSE))),
    Condition(">=", Literal(Num(1, 1)), Literal(Num(0, 1))),
    Condition("<", Reference("n"), Literal(Num(1, 1))) }

\* The @do of a loop: absent, or an assignment to n.
DoNodes == {NoNode} \cup {node \in AssignNodes : node.name = "n"}

\* processNode(node['@do']) when there is one.
processDo(node, variables) ==
  IF node.type = "assign" THEN assignVariable(node, variables) ELSE variables

\* executeKuhul(node): interpreter.execute(node.code)
executeKuhul(node, m) ==
  IF node.type = "logic" THEN executeTokens(m, node.value) ELSE m

\* [Yax x][Wo 1][Sek add][Ch'en x]
CountCode ==
  << Token("Yax", "x", Null), Token("Wo", "", Num(1, 1)),
     Token("Sek", "add", Null), Token("Chen", "x", Null) >>

\* {type: 'logic', lang: 'kuhul', code}
LogicNode(code) == Node("logic", "", code)

\* The conditions of the counting loops: ${x} < limit.
CountConditions ==
  {Condition("<", Reference("x"), Literal(Num(limit, 1))) :
     limit \in {3, maxIterations, maxIterations + 1, maxIterations + 2}}

whileContinuesOneMore(condition, variables, interpreterVariables, iterations) ==
  evaluateCondition(condition, variables, interpreterVariables)
    /\ iterations <= maxIterations

\* The test of the while statement of handleWhile.
whileContinues(condition, variables, interpreterVariables, iterations) ==
  evaluateCondition(condition, variables, interpreterVariables)
    /\ iterations < maxIterations

\* processNode({type: 'function', name, body})
XjDefineFunction ==
  \E name \in FunctionNames, body \in AssignNodes :
    /\ xjPc = "idle"
    /\ xjFunctions' = defineFunction(Node("function", name, body), xjFunctions)
    /\ xjLast' = "function"
    /\ UNCHANGED <<xjVariables, xjPc, xjWhile, xjIterations, xjBodyRuns, xjError>>
    /\ UNCHANGED notXjson

\* processNode({type: 'assign', var, value})
XjAssignVariable ==
  \E node \in AssignNodes :
    /\ xjPc = "idle"
    /\ xjVariables' = assignVariable(node, xjVariables)
    /\ xjLast' = "assign"
    /\ UNCHANGED <<xjFunctions, xjPc, xjWhile, xjIterations, xjBodyRuns, xjError>>
    /\ UNCHANGED notXjson

\* processNode({type: 'call', name}): the body of a function without
\* parameters is processed.
XjCallFunction ==
  \E name \in FunctionNames :
    /\ xjPc = "idle"
    /\ IF ObjectHas(xjFunctions, name)
         THEN /\ xjVariables' = assignVariable(ObjectGet(xjFunctions, name).body, xjVariables)
              /\ xjError' = "none"
         ELSE /\ xjError' = "undefined-function"
              /\ UNCHANGED xjVariables
    /\ xjLast' = "call"
    /\ UNCHANGED <<xjFunctions, xjPc, xjWhile, xjIterations, xjBodyRuns>>
    /\ UNCHANGED notXjson

\* runtime.reset()
XjReset ==
  /\ xjPc = "idle"
  /\ xjVariables' = <<>>
  /\ xjFunctions' = <<>>
  /\ xjLast' = "reset"
  /\ UNCHANGED <<xjPc, xjWhile, xjIterations, xjBodyRuns, xjError>>
  /\ UNCHANGED notXjson

\* handleWhile: results = [], iterations = 0
WhileEnter ==
  \E condition \in Conditions, do \in DoNodes :
    /\ xjPc = "idle"
    /\ xjPc' = "while"
    /\ xjWhile' = [condition |-> condition, do |-> do]
    /\ xjIterations' = 0
    /\ xjBodyRuns' = 0
    /\ xjError' = "none"
    /\ xjLast' = "while"
    /\ UNCHANGED <<xjVariables, xjFunctions>>
    /\ UNCHANGED notXjson

\* One turn of the loop: the @do is processed if there is one; a logic
\* block of the @do is executed by the interpreter, and what it throws
\* ends the loop.
WhileIterate ==
  LET m     == Machine(kiStack, kiVariables, kiFunctions, kiCurrentFunction, "none")
      after == executeKuhul(xjWhile.do, m) IN
  /\ xjPc = "while"
  /\ whileContinues(xjWhile.condition, xjVariables, kiVariables, xjIterations)
  /\ xjVariables' = processDo(xjWhile.do, xjVariables)
  /\ xjBodyRuns' = IF xjWhile.do = NoNode THEN xjBodyRuns ELSE xjBodyRuns + 1
  /\ IF xjWhile.do.type = "logic"
       THEN /\ kiStack' = after.stack
            /\ kiVariables' = after.variables
            /\ kiFunctions' = after.functions
            /\ kiCurrentFunction' = after.currentFunction
            /\ kiError' = after.error
            /\ kiReturn' = IF after.error = "none" THEN executeValue(after) ELSE Undefined
            /\ kiLast' = [call |-> "execute", code |-> xjWhile.do.value]
            /\ IF after.error = "none"
                 THEN xjIterations' = xjIterations + 1 /\ UNCHANGED <<xjPc, xjError>>
                 ELSE xjPc' = "failed" /\ xjError' = "kuhul-error" /\ UNCHANGED xjIterations
       ELSE /\ xjIterations' = xjIterations + 1
            /\ UNCHANGED <<xjPc, xjError>>
            /\ UNCHANGED kiVars
  /\ UNCHANGED <<xjFunctions, xjWhile, xjLast>>
  /\ UNCHANGED notXjsonGlyph

\* The loop is left: 'Maximum iterations reached in @while loop', or results.
WhileExit ==
  /\ xjPc = "while"
  /\ ~whileContinues(xjWhile.condition, xjVariables, kiVariables, xjIterations)
  /\ IF xjIterations >= maxIterations
       THEN xjPc' = "failed" /\ xjError' = "loop-limit"
       ELSE xjPc' = "returned" /\ xjError' = "none"
  /\ UNCHANGED <<xjVariables, xjFunctions, xjWhile, xjIterations, xjBodyRuns, xjLast>>
  /\ UNCHANGED notXjson

WhileDone ==
  /\ xjPc \in {"failed", "returned"}
  /\ xjPc' = "idle"
  /\ xjWhile' = [condition |-> Condition("boolean", Literal(Bool(FALSE)), Literal(Bool(FALSE))),
                 do |-> NoNode]
  /\ xjIterations' = 0
  /\ xjBodyRuns' = 0
  /\ xjError' = "none"
  /\ UNCHANGED <<xjVariables, xjFunctions, xjLast>>
  /\ UNCHANGED notXjson

\* A logic block that sets the counter: [Wo 1][Ch'en x].
CounterSet ==
  LET m     == Machine(kiStack, kiVariables, kiFunctions, kiCurrentFunction, "none")
      code  == <<Token("Wo", "", Num(1, 1)), Token("Chen", "x", Null)>>
      after == executeKuhul(LogicNode(code), m) IN
  /\ xjPc = "idle"
  /\ kiStack' = after.stack
  /\ kiVariables' = after.variables
  /\ kiFunctions' = after.functions
  /\ kiCurrentFunction' = after.currentFunction
  /\ kiError' = after.error
  /\ kiReturn' = executeValue(after)
  /\ kiLast' = [call |-> "execute", code |-> code]
  /\ xjLast' = "logic"
  /\ UNCHANGED <<xjVariables, xjFunctions, xjPc, xjWhile, xjIterations, xjBodyRuns, xjError>>
  /\ UNCHANGED notXjsonGlyph

\* handleWhile of a loop that counts x up from 1 in the interpreter.
CountEnter ==
  \E condition \in CountConditions :
    /\ xjPc = "idle"
    /\ ObjectHas(kiVariables, "x")
    /\ ObjectGet(kiVariables, "x") = Num(1, 1)
    /\ ~ObjectHas(xjVariables, "x")
    /\ xjPc' = "while"
    /\ xjWhile' = [condition |-> condition, do |-> LogicNode(CountCode)]
    /\ xjIterations' = 0
    /\ xjBodyRuns' = 0
    /\ xjError' = "none"
    /\ xjLast' = "while"
    /\ UNCHANGED <<xjVariables, xjFunctions>>
    /\ UNCHANGED notXjson

InitXjson ==
  /\ xjVariables = <<>>
  /\ xjFunctions = <<>>
  /\ xjPc = "idle"
  /\ xjWhile = [condition |-> Condition("boolean", Literal(Bool(FALSE)), Literal(Bool(FALSE))),
                do |-> NoNode]
  /\ xjIterations = 0
  /\ xjBodyRuns = 0
  /\ xjError = "none"
  /\ xjLast = "none"

NextXjson ==
  \/ XjDefineFunction
  \/ XjAssignVariable
  \/ XjCallFunction
  \/ XjReset

NextWhile ==
  \/ WhileEnter
  \/ WhileIterate
  \/ WhileExit
  \/ WhileDone

NextCount ==
  \/ CounterSet
  \/ CountEnter
  \/ WhileIterate
  \/ WhileExit
  \/ WhileDone

(***************************************************************************)
(* The KLH orchestrator: hives, tapes, the route table and the agents.     *)
(* A Map is a function from its keys; a route key is <<hiveId, path>>.     *)
(***************************************************************************)
MaxTasks == 1

HiveIds == {"h1", "h2"}

TapeIds == {"t1", "t2"}

TapeNames == {"A", "B"}

\* config.routes and config.agents of a tape: one route and one agent each.
RoutesOfTape(tapeId) == IF tapeId = "t1" THEN {"/p1"} ELSE {"/p2"}

AgentsOfTape(tapeId) == IF tapeId = "t1" THEN {"a1"} ELSE {"a2"}

RoutePaths == UNION {RoutesOfTape(t) : t \in TapeIds}

AgentIds == UNION {AgentsOfTape(t) : t \in TapeIds}

\* map.set(key, value)
KlhSet(map, key, value) ==
  [k \in (DOMAIN map) \cup {key} |-> IF k = key THEN value ELSE map[k]]

KlhCall(call, tape, hive, target) ==
  [call |-> call, tape |-> tape, hive |-> hive, target |-> target]

registerHive(hives, hiveId) ==
  KlhSet(hives, hiveId, [status |-> "offline", tapes |-> {}, agents |-> {}])

registerTape(tapes, tapeId, name) ==
  KlhSet(tapes, tapeId, [name |-> name, hiveId |-> "null", status |-> "unmounted"])

\* registerRoute for every route of the tape
registerRoutes(routes, tapeId, hiveId) ==
  [k \in (DOMAIN routes) \cup {<<hiveId, p>> : p \in RoutesOfTape(tapeId)} |->
     IF k[1] = hiveId /\ k[2] \in RoutesOfTape(tapeId)
       THEN [tapeId |-> tapeId, hiveId |-> hiveId]
       ELSE routes[k]]

\* registerAgent for every agent of the tape: a new agent record, idle and
\* without tasks, replaces the one of the same id.
registerAgents(agentMap, tapeId, hiveId) ==
  [a \in (DOMAIN agentMap) \cup AgentsOfTape(tapeId) |->
     IF a \in AgentsOfTape(tapeId)
       THEN [tapeId |-> tapeId, hiveId |-> hiveId, status |-> "idle", tasks |-> <<>>]
       ELSE agentMap[a]]

KlhRegisterHive ==
  \E hiveId \in HiveIds :
    /\ IF hiveId \in DOMAIN klHives
         THEN klError' = "hive-already-registered" /\ UNCHANGED klHives
         ELSE klError' = "none" /\ klHives' = registerHive(klHives, hiveId)
    /\ klLast' = KlhCall("registerHive", "", hiveId, "")
    /\ UNCHANGED <<klTapes, klRoutes, klAgents>>
    /\ UNCHANGED notKlh

KlhRegisterTape ==
  \E tapeId \in TapeIds, name \in TapeNames :
    /\ IF tapeId \in DOMAIN klTapes
         THEN klError' = "tape-already-registered" /\ UNCHANGED klTapes
         ELSE klError' = "none" /\ klTapes' = registerTape(klTapes, tapeId, name)
    /\ klLast' = KlhCall("registerTape", tapeId, "", name)
    /\ UNCHANGED <<klHives, klRoutes, klAgents>>
    /\ UNCHANGED notKlh

KlhMountTape ==
  \E tapeId \in TapeIds, hiveId \in HiveIds :
    /\ IF tapeId \notin DOMAIN klTapes
         THEN /\ klError' = "tape-not-found"
              /\ UNCHANGED <<klHives, klTapes, klRoutes, klAgents>>
         ELSE IF hiveId \notin DOMAIN klHives
         THEN /\ klError' = "hive-not-found"
              /\ UNCHANGED <<klHives, klTapes, klRoutes, klAgents>>
         ELSE /\ klError' = "none"
              /\ klTapes' = [klTapes EXCEPT ![tapeId].hiveId = hiveId,
                                             ![tapeId].status = "mounted"]
              /\ klRoutes' = registerRoutes(klRoutes, tapeId, hiveId)
              /\ klAgents' = registerAgents(klAgents, tapeId, hiveId)
              /\ klHives' = [klHives EXCEPT
                               ![hiveId].tapes = @ \cup {tapeId},
                               ![hiveId].agents = @ \cup AgentsOfTape(tapeId)]
    /\ klLast' = KlhCall("mountTape", tapeId, hiveId, "")
    /\ UNCHANGED notKlh

KlhUnmountTape ==
  \E tapeId \in TapeIds :
    /\ IF tapeId \notin DOMAIN klTapes
         THEN klError' = "tape-not-found" /\ UNCHANGED <<klHives, klTapes>>
         ELSE IF klTapes[tapeId].hiveId = "null"
         THEN klError' = "tape-not-mounted" /\ UNCHANGED <<klHives, klTapes>>
         ELSE /\ klError' = "none"
              /\ klHives' = [klHives EXCEPT ![klTapes[tapeId].hiveId].tapes = @ \ {tapeId}]
              /\ klTapes' = [klTapes EXCEPT ![tapeId].hiveId = "null",
                                             ![tapeId].status = "unmounted"]
    /\ klLast' = KlhCall("unmountTape", tapeId, "", "")
    /\ UNCHANGED <<klRoutes, klAgents>>
    /\ UNCHANGED notKlh

KlhRoute ==
  \E hiveId \in HiveIds, path \in RoutePaths :
    /\ klError' = IF <<hiveId, path>> \in DOMAIN klRoutes THEN "none" ELSE "route-not-found"
    /\ klLast' = KlhCall("route", "", hiveId, path)
    /\ UNCHANGED <<klHives, klTapes, klRoutes, klAgents>>
    /\ UNCHANGED notKlh

KlhDelegateTask ==
  \E agentId \in AgentIds :
    /\ IF agentId \notin DOMAIN klAgents
         THEN klError' = "agent-not-found" /\ UNCHANGED klAgents
         ELSE /\ Len(klAgents[agentId].tasks) < MaxTasks
              /\ klError' = "none"
              /\ klAgents' = [klAgents EXCEPT ![agentId].status = "busy",
                                               ![agentId].tasks = Append(@, "task")]
    /\ klLast' = KlhCall("delegateTask", "", "", agentId)
    /\ UNCHANGED <<klHives, klTapes, klRoutes>>
    /\ UNCHANGED notKlh

InitKlh ==
  /\ klHives = <<>>
  /\ klTapes = <<>>
  /\ klRoutes = <<>>
  /\ klAgents = <<>>
  /\ klError = "none"
  /\ klLast = KlhCall("none", "", "", "")

NextKlh ==
  \/ KlhRegisterHive
  \/ KlhRegisterTape
  \/ KlhMountTape
  \/ KlhUnmountTape
  \/ KlhRoute
  \/ KlhDelegateTask

(***************************************************************************)
(* The GHOST tape registry and proxy.  The tapes directory is a list of    *)
(* tape directories in the order a scan meets them, each with the id its   *)
(* manifest declares.                                                      *)
(***************************************************************************)
MaxDirs == 3
MaxForwards == 9

DirNames == <<"d1", "d2", "d3", "d4">>

\* for (const entry of entries) tapeRegistry.set(tapeData.id, {...}); the
\* foreach of scanTapes assigns $tapes[$tapeId] the same way.
RECURSIVE ScanInto(_, _)
ScanInto(registry, dirs) ==
  IF dirs = <<>> THEN registry
  ELSE ScanInto(KlhSet(registry, Head(dirs).id, [id |-> Head(dirs).id, path |-> Head(dirs).dir]),
                Tail(dirs))

loadTapes(dirs) == ScanInto(<<>>, dirs)

scanTapes(dirs) == ScanInto(<<>>, dirs)

\* A tape directory with a manifest appears in the tapes directory.
TapeDirAdded ==
  \E id \in TapeIds :
    /\ Len(ghDirs) < MaxDirs
    /\ ghDirs' = Append(ghDirs, [dir |-> DirNames[Len(ghDirs) + 1], id |-> id])
    /\ UNCHANGED <<ghRegistry, ghScanned, ghForwards, ghTarget, ghResponse>>
    /\ UNCHANGED notGhost

\* ghost_route: loadTapes (scanning once, then the cached registry), then
\* the mock response; nothing is forwarded.
GhostRoute ==
  \E tapeId \in TapeIds :
    /\ ghForwards = 0
    /\ LET registry == IF ghRegistry.loaded THEN ghRegistry.tapes ELSE loadTapes(ghDirs) IN
         /\ ghRegistry' = [loaded |-> TRUE, tapes |-> registry]
         /\ ghScanned' = IF ghRegistry.loaded THEN ghScanned ELSE ghDirs
         /\ ghResponse' = IF tapeId \in DOMAIN registry THEN "routed" ELSE "tape-not-found"
    /\ ghTarget' = tapeId
    /\ UNCHANGED <<ghDirs, ghForwards>>
    /\ UNCHANGED notGhost

\* handleTapeProxy called by a client: 404, or the request is forwarded to
\* the tape.
GhostProxy ==
  \E tapeId \in TapeIds :
    /\ ghForwards = 0
    /\ ghTarget' = tapeId
    /\ IF tapeId \in DOMAIN scanTapes(ghDirs)
         THEN ghForwards' = 1 /\ ghResponse' = "none"
         ELSE ghForwards' = 0 /\ ghResponse' = "tape-not-found"
    /\ UNCHANGED <<ghDirs, ghRegistry, ghScanned>>
    /\ UNCHANGED notGhost

\* The tape that received the forwarded request calls the proxy in turn, for
\* itself or for another tape: handleTapeProxy forwards again.
TapeProxiesOn ==
  \E tapeId \in DOMAIN scanTapes(ghDirs) :
    /\ ghForwards >= 1
    /\ ghForwards < MaxForwards
    /\ ghTarget' = tapeId
    /\ ghForwards' = ghForwards + 1
    /\ UNCHANGED <<ghDirs, ghRegistry, ghScanned, ghResponse>>
    /\ UNCHANGED notGhost

\* The tape at the end of the chain answers and the chain returns.
TapeAnswers ==
  /\ ghForwards >= 1
  /\ ghForwards' = 0
  /\ ghResponse' = "ok"
  /\ UNCHANGED <<ghDirs, ghRegistry, ghScanned, ghTarget>>
  /\ UNCHANGED notGhost

InitGhost ==
  /\ ghDirs = <<>>
  /\ ghRegistry = [loaded |-> FALSE, tapes |-> <<>>]
  /\ ghScanned = <<>>
  /\ ghForwards = 0
  /\ ghTarget = "none"
  /\ ghResponse = "none"

NextGhost ==
  \/ TapeDirAdded
  \/ GhostRoute
  \/ GhostProxy
  \/ TapeProxiesOn
  \/ TapeAnswers

(***************************************************************************)
(* The store handler of the server and the store handler of the browser    *)
(* fallback, given the same requests.  The browser keeps its items in the  *)
(* IndexedDB object store 'cache' (keyPath 'key'), which holds and lists   *)
(* its records in the order of their keys.                                 *)
(***************************************************************************)
\* The keys of the requests, and their order in IndexedDB.
PairKeys == {"k2", "k1", "k3"}

KeyRank == [k1 |-> 1, k2 |-> 2, k3 |-> 3]

\* objectStore.put(item)
IdbPut(items, item) ==
  LET before == SelectSeq(items, LAMBDA e : KeyRank[e.key] < KeyRank[item.key])
      after  == SelectSeq(items, LAMBDA e : KeyRank[e.key] > KeyRank[item.key]) IN
    before \o <<item>> \o after

\* objectStore.get(key) found a record
IdbHas(items, key) == \E i \in DOMAIN items : items[i].key = key

\* item?.value
IdbValue(items, key) ==
  IF IdbHas(items, key)
    THEN items[CHOOSE i \in DOMAIN items : items[i].key = key].value
    ELSE "undefined"

\* objectStore.delete(key)
IdbDelete(items, key) == SelectSeq(items, LAMBDA e : e.key # key)

\* objectStore.getAll(), mapped to the keys
IdbKeys(items) == [i \in DOMAIN items |-> items[i].key]

StoreRequests ==
  {StoreRequest("set", key, value) : key \in PairKeys, value \in StoreValues}
    \cup {StoreRequest(action, key, "undefined") : action \in {"get", "delete"}, key \in PairKeys}
    \cup {StoreRequest(action, "undefined", "undefined") : action \in {"list", "clear", "has"}}

\* handlers.store of the server: the storage after the request, and the answer.
serverStore(m, request) ==
  CASE request.action = "set" ->
         [storage |-> MapSet(m, request.key, request.value),
          answer  |-> StoreAnswer("set", TRUE, request.key, request.value, <<>>, NoError)]
    [] request.action = "get" ->
         [storage |-> m,
          answer  |-> StoreAnswer("get", MapHas(m, request.key), request.key,
                                  MapGet(m, request.key), <<>>, NoError)]
    [] request.action = "delete" ->
         [storage |-> MapDelete(m, request.key),
          answer  |-> StoreAnswer("delete", MapHas(m, request.key), request.key,
                                  "undefined", <<>>, NoError)]
    [] request.action = "list" ->
         [storage |-> m,
          answer  |-> StoreAnswer("list", TRUE, "undefined", "undefined", MapKeys(m), NoError)]
    [] request.action = "clear" ->
         [storage |-> <<>>,
          answer  |-> StoreAnswer("clear", TRUE, "undefined", "undefined", <<>>, NoError)]
    [] OTHER ->
         [storage |-> m,
          answer  |-> StoreAnswer(request.action, FALSE, "undefined", "undefined", <<>>,
                                  "Unknown action")]

\* BrowserFallback.handlers.store
browserStore(items, request) ==
  CASE request.action = "set" ->
         [storage |-> IdbPut(items, [key |-> request.key, value |-> request.value]),
          answer  |-> StoreAnswer("set", TRUE, request.key, request.value, <<>>, NoError)]
    [] request.action = "get" ->
         [storage |-> items,
          answer  |-> StoreAnswer("get", IdbHas(items, request.key), request.key,
                                  IdbValue(items, request.key), <<>>, NoError)]
    [] request.action = "delete" ->
         [storage |-> IdbDelete(items, request.key),
          answer  |-> StoreAnswer("delete", TRUE, request.key, "undefined", <<>>, NoError)]
    [] request.action = "list" ->
         [storage |-> items,
          answer  |-> StoreAnswer("list", TRUE, "undefined", "undefined", IdbKeys(items),
                                  NoError)]
    [] request.action = "clear" ->
         [storage |-> <<>>,
          answer  |-> StoreAnswer("clear", TRUE, "undefined", "undefined", <<>>, NoError)]
    [] OTHER ->
         [storage |-> items,
          answer  |-> StoreAnswer(request.action, FALSE, "undefined", "undefined", <<>>,
                                  "Unknown action")]

\* One request, sent to the server and to the browser fallback.
StoreOnBoth ==
  \E request \in StoreRequests :
    /\ spServer' = serverStore(spServer, request).storage
    /\ spServerAnswer' = serverStore(spServer, request).answer
    /\ spCache' = browserStore(spCache, request).storage
    /\ spBrowserAnswer' = browserStore(spCache, request).answer
    /\ UNCHANGED notPair

InitPair ==
  /\ spServer = <<>>
  /\ spCache = <<>>
  /\ spServerAnswer = NoStoreResult
  /\ spBrowserAnswer = NoStoreResult

NextPair == StoreOnBoth

(***************************************************************************)
(* The loop of agents_tribunal over its judges, one step per await: each   *)
(* judge's evaluateWithAgent is raced against a timer, and the loop goes   *)
(* on when the race settles.  The loser of a race settles later on.        *)
(***************************************************************************)

\* The rejection of the timer: new Error('Timeout').
TimeoutError == [threw |-> TRUE, verdict |-> "", confidence |-> 0]

\* What a settled race leaves behind: the promise that lost it.
Loser(judge, promise) == [judge |-> judge, promise |-> promise]

\* agents_tribunal is called: the input is destructured, loadAgents is
\* awaited and votes starts empty.
JudgeLoopStart ==
  \E list \in JudgeLists, clineExists \in BOOLEAN, rombosExists \in BOOLEAN :
    /\ jlPc = "idle"
    /\ jlPc' = "loop"
    /\ jlAgents' = loadAgents(jlAgents, clineExists, rombosExists)
    /\ jlJudges' = list
    /\ jlIndex' = 1
    /\ jlVotes' = <<>>
    /\ jlDispatched' = <<>>
    /\ jlElapsed' = {}
    /\ UNCHANGED <<jlLosers, jlResult>>
    /\ UNCHANGED notLoop

\* if (!agents.has(judge)) continue
JudgeSkipped ==
  /\ jlPc = "loop"
  /\ jlIndex <= Len(jlJudges)
  /\ jlJudges[jlIndex] \notin jlAgents
  /\ jlIndex' = jlIndex + 1
  /\ UNCHANGED <<jlPc, jlAgents, jlJudges, jlVotes, jlDispatched, jlElapsed,
                 jlLosers, jlResult>>
  /\ UNCHANGED notLoop

\* evaluateWithAgent(judge, task) is called and the timer is set; the loop
\* awaits their race.
JudgeDispatched ==
  /\ jlPc = "loop"
  /\ jlIndex <= Len(jlJudges)
  /\ jlJudges[jlIndex] \in jlAgents
  /\ jlPc' = "awaiting"
  /\ jlDispatched' = Append(jlDispatched, jlJudges[jlIndex])
  /\ UNCHANGED <<jlAgents, jlJudges, jlIndex, jlVotes, jlElapsed, jlLosers,
                 jlResult>>
  /\ UNCHANGED notLoop

\* The judge's result settles the race; the timer is left running.
JudgeAnswers ==
  \E result \in MockResults :
    /\ jlPc = "awaiting"
    /\ jlPc' = "loop"
    /\ jlVotes' = Append(jlVotes, AgentVote(jlJudges[jlIndex], result))
    /\ jlLosers' = jlLosers \cup {Loser(jlJudges[jlIndex], "timer")}
    /\ jlIndex' = jlIndex + 1
    /\ UNCHANGED <<jlAgents, jlJudges, jlDispatched, jlElapsed, jlResult>>
    /\ UNCHANGED notLoop

\* The timer settles the race: the catch block pushes the vote; the
\* judge's evaluation is left running.
JudgeTimesOut ==
  /\ jlPc = "awaiting"
  /\ jlPc' = "loop"
  /\ jlVotes' = Append(jlVotes, AgentVote(jlJudges[jlIndex], TimeoutError))
  /\ jlElapsed' = jlElapsed \cup {Len(jlVotes) + 1}
  /\ jlLosers' = jlLosers \cup {Loser(jlJudges[jlIndex], "evaluation")}
  /\ jlIndex' = jlIndex + 1
  /\ UNCHANGED <<jlAgents, jlJudges, jlDispatched, jlResult>>
  /\ UNCHANGED notLoop

\* The promise that lost a race settles: the race has settled already and
\* nothing awaits the loser.
LoserSettles ==
  \E loser \in jlLosers :
    /\ jlLosers' = jlLosers \ {loser}
    /\ UNCHANGED <<jlPc, jlAgents, jlJudges, jlIndex, jlVotes, jlDispatched,
                   jlElapsed, jlResult>>
    /\ UNCHANGED notLoop

\* The loop is over: the consensus is calculated and returned.
JudgeLoopReturns ==
  /\ jlPc = "loop"
  /\ jlIndex > Len(jlJudges)
  /\ jlPc' = "answered"
  /\ jlResult' = agents_tribunal(jlVotes)
  /\ UNCHANGED <<jlAgents, jlJudges, jlIndex, jlVotes, jlDispatched,
                 jlElapsed, jlLosers>>
  /\ UNCHANGED notLoop

\* The caller has its answer; the next call may come.
JudgeLoopDone ==
  /\ jlPc = "answered"
  /\ jlPc' = "idle"
  /\ jlJudges' = <<>>
  /\ jlIndex' = 1
  /\ jlVotes' = <<>>
  /\ jlDispatched' = <<>>
  /\ jlElapsed' = {}
  /\ jlResult' = NoAgentsResult
  /\ UNCHANGED <<jlAgents, jlLosers>>
  /\ UNCHANGED notLoop

InitLoop ==
  /\ jlPc = "idle"
  /\ jlAgents = {}
  /\ jlJudges = <<>>
  /\ jlIndex = 1
  /\ jlVotes = <<>>
  /\ jlDispatched = <<>>
  /\ jlElapsed = {}
  /\ jlLosers = {}
  /\ jlResult = NoAgentsResult

NextLoop ==
  \/ JudgeLoopStart
  \/ JudgeSkipped
  \/ JudgeDispatched
  \/ JudgeAnswers
  \/ JudgeTimesOut
  \/ LoserSettles
  \/ JudgeLoopReturns
  \/ JudgeLoopDone

(***************************************************************************)
(* loadTapes under concurrent requests, one step per await of the scan.    *)
(* The tapes directory holds the tape directories of TapeEntries.          *)
(***************************************************************************)
MaxScans == 2

\* The ids declared by the manifests, in the order readdir lists them.
TapeEntries == <<"t1", "t2">>

\* The handlers that await loadTapes and answer from the registry.
RegistryReaders == {"ghost_list", "ghost_get", "ghost_launch", "ghost_status"}

NoScan == [caller |-> "none", next |-> 0]

\* The registry a complete scan of the tapes directory gives.
CompleteScan == {TapeEntries[k] : k \in DOMAIN TapeEntries}

\* The result of a handler, by the keys of the registry it was computed
\* from.
RegistryAnswer(handler, registry) == [handler |-> handler, tapes |-> registry]

\* A handler awaits loadTapes while tapeRegistry is null: the registry
\* becomes an empty Map and the scan starts.
GhostFirstRequest ==
  \E handler \in RegistryReaders \cup {"ghost_discover"}, s \in 1..MaxScans :
    /\ ~ldRegistry.loaded
    /\ ldScans[s] = NoScan
    /\ ldRegistry' = [loaded |-> TRUE, tapes |-> {}]
    /\ ldScans' = [ldScans EXCEPT ![s] = [caller |-> handler, next |-> 1]]
    /\ UNCHANGED ldAnswer
    /\ UNCHANGED notLoad

\* A handler awaits loadTapes while tapeRegistry is set: loadTapes returns
\* the registry as it is.
GhostRequest ==
  \E handler \in RegistryReaders \cup {"ghost_discover"} :
    /\ ldRegistry.loaded
    /\ ldAnswer' = RegistryAnswer(handler, ldRegistry.tapes)
    /\ UNCHANGED <<ldRegistry, ldScans>>
    /\ UNCHANGED notLoad

\* ghost_discover with rescan: tapeRegistry = null, then loadTapes.
GhostRescan ==
  \E s \in 1..MaxScans :
    /\ ldScans[s] = NoScan
    /\ ldRegistry' = [loaded |-> TRUE, tapes |-> {}]
    /\ ldScans' = [ldScans EXCEPT ![s] = [caller |-> "ghost_discover", next |-> 1]]
    /\ UNCHANGED ldAnswer
    /\ UNCHANGED notLoad

\* One turn of the loop over the entries: the manifest is read and set in
\* the Map that tapeRegistry names now.
ScanStep ==
  \E s \in 1..MaxScans :
    /\ ldScans[s] # NoScan
    /\ ldScans[s].next <= Len(TapeEntries)
    /\ ldRegistry' = [ldRegistry EXCEPT !.tapes = @ \cup {TapeEntries[ldScans[s].next]}]
    /\ ldScans' = [ldScans EXCEPT ![s].next = @ + 1]
    /\ UNCHANGED ldAnswer
    /\ UNCHANGED notLoad

\* The loop is over: loadTapes returns tapeRegistry to the handler that
\* awaited it, which answers.
ScanReturns ==
  \E s \in 1..MaxScans :
    /\ ldScans[s] # NoScan
    /\ ldScans[s].next > Len(TapeEntries)
    /\ ldAnswer' = RegistryAnswer(ldScans[s].caller, ldRegistry.tapes)
    /\ ldScans' = [ldScans EXCEPT ![s] = NoScan]
    /\ UNCHANGED ldRegistry
    /\ UNCHANGED notLoad

InitLoad ==
  /\ ldRegistry = [loaded |-> FALSE, tapes |-> {}]
  /\ ldScans = [s \in 1..MaxScans |-> NoScan]
  /\ ldAnswer = RegistryAnswer("none", {})

NextLoad ==
  \/ GhostFirstRequest
  \/ GhostRequest
  \/ GhostRescan
  \/ ScanStep
  \/ ScanReturns

(***************************************************************************)
(* TapeSystem over the KLH orchestrator: loadedTapes holds the tapes       *)
(* createTape made; mountToHive and unloadTape call the orchestrator.      *)
(***************************************************************************)
\* createTape: the tape object has no hiveId property.
createTape(tapeId) == [id |-> tapeId, hiveId |-> "undefined"]

\* klh.mountTape(tapeId, hiveId) on a registered tape and an existing hive.
mountTape(hives, tapeId, hiveId) ==
  [hives EXCEPT ![hiveId].tapes = @ \cup {tapeId},
                ![hiveId].agents = @ \cup AgentsOfTape(tapeId)]

\* loadTape(tapeConfig): createTape sets the tape in loadedTapes.
TsLoadTape ==
  \E tapeId \in TapeIds :
    /\ tsLoaded' = KlhSet(tsLoaded, tapeId, createTape(tapeId))
    /\ tsError' = "none"
    /\ tsLast' = KlhCall("loadTape", tapeId, "", "")
    /\ UNCHANGED klVars
    /\ UNCHANGED notTapeSystem

\* mountToHive(tapeId, hiveId): klh.registerTape, then klh.mountTape; what
\* either throws is thrown on.
TsMountToHive ==
  \E tapeId \in TapeIds, hiveId \in HiveIds :
    LET registered == registerTape(klTapes, tapeId, "A") IN
    /\ IF tapeId \notin DOMAIN tsLoaded
         THEN /\ tsError' = "tape-not-loaded"
              /\ UNCHANGED klVars
         ELSE IF tapeId \in DOMAIN klTapes
         THEN /\ tsError' = "tape-already-registered"
              /\ klError' = "tape-already-registered"
              /\ klLast' = KlhCall("registerTape", tapeId, "", "A")
              /\ UNCHANGED <<klHives, klTapes, klRoutes, klAgents>>
         ELSE IF hiveId \notin DOMAIN klHives
         THEN /\ tsError' = "hive-not-found"
              /\ klError' = "hive-not-found"
              /\ klLast' = KlhCall("mountTape", tapeId, hiveId, "")
              /\ klTapes' = registered
              /\ UNCHANGED <<klHives, klRoutes, klAgents>>
         ELSE /\ tsError' = "none"
              /\ klError' = "none"
              /\ klLast' = KlhCall("mountTape", tapeId, hiveId, "")
              /\ klTapes' = [registered EXCEPT ![tapeId].hiveId = hiveId,
                                                ![tapeId].status = "mounted"]
              /\ klRoutes' = registerRoutes(klRoutes, tapeId, hiveId)
              /\ klAgents' = registerAgents(klAgents, tapeId, hiveId)
              /\ klHives' = mountTape(klHives, tapeId, hiveId)
    /\ tsLast' = KlhCall("mountToHive", tapeId, hiveId, "")
    /\ UNCHANGED tsLoaded
    /\ UNCHANGED notTapeSystem

\* unloadTape(tapeId): klh.unmountTape if the loaded tape has a hiveId,
\* then the tape is deleted from loadedTapes.
TsUnloadTape ==
  \E tapeId \in TapeIds :
    /\ IF tapeId \notin DOMAIN tsLoaded
         THEN /\ tsError' = "not-loaded"
              /\ UNCHANGED <<tsLoaded, klVars>>
         ELSE /\ tsError' = "none"
              /\ tsLoaded' = [k \in (DOMAIN tsLoaded) \ {tapeId} |-> tsLoaded[k]]
              /\ IF tsLoaded[tapeId].hiveId # "undefined"
                   THEN /\ klHives' = [klHives EXCEPT
                                         ![klTapes[tapeId].hiveId].tapes = @ \ {tapeId}]
                        /\ klTapes' = [klTapes EXCEPT ![tapeId].hiveId = "null",
                                                       ![tapeId].status = "unmounted"]
                        /\ klError' = "none"
                        /\ klLast' = KlhCall("unmountTape", tapeId, "", "")
                        /\ UNCHANGED <<klRoutes, klAgents>>
                   ELSE UNCHANGED klVars
    /\ tsLast' = KlhCall("unloadTape", tapeId, "", "")
    /\ UNCHANGED notTapeSystem

InitTapeSystem ==
  /\ tsLoaded = <<>>
  /\ tsError = "none"
  /\ tsLast = KlhCall("none", "", "", "")

\* The host registers the hives with the orchestrator itself.
NextTapeSystem ==
  \/ TsLoadTape
  \/ TsMountToHive
  \/ TsUnloadTape
  \/ KlhRegisterHive

(***************************************************************************)
(* The Tribunal from its construction: the constructor starts loadJudges   *)
(* and returns; loadJudges fetches the configuration, sets every judge     *)
(* offline and pings the judges one after the other.  Which judges can be  *)
(* reached changes on its own.                                             *)
(***************************************************************************)
\* The outcome of evaluate up to its test of the slate, with the judges
\* that could be reached when it was called.
SlateOutcome(error, reachable) == [error |-> error, reachable |-> reachable]

\* onlineJudges of evaluate: the entries of this.judges with status online.
onlineJudges(js) == {id \in DOMAIN js : js[id] = "online"}

\* A configured judge becomes reachable or stops being so.
JudgeReachabilityChanges ==
  \E id \in JudgeIds :
    /\ jpReachable' = IF id \in jpReachable THEN jpReachable \ {id}
                                            ELSE jpReachable \cup {id}
    /\ UNCHANGED <<jpJudges, jpPing, jpOutcome>>
    /\ UNCHANGED notPing

\* loadJudges after its fetch of judges.json: every judge is set with the
\* status offline, and pingJudges starts.
JudgesConfigLoaded ==
  /\ jpPing = 0
  /\ jpJudges' = [id \in JudgeIds |-> "offline"]
  /\ jpPing' = 1
  /\ UNCHANGED <<jpReachable, jpOutcome>>
  /\ UNCHANGED notPing

\* One turn of the loop of pingJudges: the ping of a judge answers or
\* fails.
PingAnswers ==
  /\ jpPing \in DOMAIN JudgeOrder
  /\ jpJudges' = [jpJudges EXCEPT ![JudgeOrder[jpPing]] =
                    IF JudgeOrder[jpPing] \in jpReachable THEN "online" ELSE "offline"]
  /\ jpPing' = jpPing + 1
  /\ UNCHANGED <<jpReachable, jpOutcome>>
  /\ UNCHANGED notPing

\* evaluate(task) up to the test of the slate.
EvaluateSlate ==
  /\ jpOutcome' = SlateOutcome(IF onlineJudges(jpJudges) = {}
                                 THEN "no-judges-online" ELSE "none",
                               jpReachable)
  /\ UNCHANGED <<jpJudges, jpReachable, jpPing>>
  /\ UNCHANGED notPing

\* The tribunal is constructed anew (a page load).
TribunalConstructed ==
  /\ jpPing > Len(JudgeOrder)
  /\ jpJudges' = <<>>
  /\ jpPing' = 0
  /\ jpOutcome' = SlateOutcome("none", {})
  /\ UNCHANGED jpReachable
  /\ UNCHANGED notPing

InitPing ==
  /\ jpJudges = <<>>
  /\ jpReachable = JudgeIds
  /\ jpPing = 0
  /\ jpOutcome = SlateOutcome("none", {})

NextPing ==
  \/ JudgeReachabilityChanges
  \/ JudgesConfigLoaded
  \/ PingAnswers
  \/ EvaluateSlate
  \/ TribunalConstructed

(***************************************************************************)
(* handleFor of the XJSON runtime, one step per turn of its for            *)
(* statement.  from, to and step are integers; a step is absent, a number  *)
(* or the text of a number.                                                *)
(***************************************************************************)
MaxForRuns == 4

StepExpr(kind, n) == [kind |-> kind, n |-> n]

\* forExpr.step: absent, the numbers 0, 1 and -1, and the text "0".
StepExprs ==
  { StepExpr("absent", 0), StepExpr("number", 0), StepExpr("number", 1),
    StepExpr("number", -1), StepExpr("text", 0) }

\* forExpr.step ? this.evaluate(forExpr.step) : 1
forStep(step) ==
  IF step.kind = "absent" \/ (step.kind = "number" /\ step.n = 0) THEN 1 ELSE step.n

ForLoop(from, to, step, do) == [from |-> from, to |-> to, step |-> step, do |-> do]

NoFor == ForLoop(0, 0, StepExpr("absent", 0), NoNode)

\* handleFor: results = [], let i = from
ForEnter ==
  \E from \in {0, 1}, to \in {0, 2}, step \in StepExprs, do \in DoNodes :
    /\ frPc = "idle"
    /\ frPc' = "for"
    /\ frFor' = ForLoop(from, to, step, do)
    /\ frI' = from
    /\ frRuns' = 0
    /\ UNCHANGED xjVars
    /\ UNCHANGED notFor

\* One turn: i < to, variables[var] = i, the @do is processed, i += step.
ForIterate ==
  /\ frPc = "for"
  /\ frI < frFor.to
  /\ frRuns < MaxForRuns
  /\ xjVariables' = processDo(frFor.do, ObjectSet(xjVariables, "m", Num(frI, 1)))
  /\ frI' = frI + forStep(frFor.step)
  /\ frRuns' = frRuns + 1
  /\ UNCHANGED <<frPc, frFor>>
  /\ UNCHANGED <<xjFunctions, xjPc, xjWhile, xjIterations, xjBodyRuns, xjError, xjLast>>
  /\ UNCHANGED notFor

\* i < to is false: the results are returned.
ForExit ==
  /\ frPc = "for"
  /\ ~(frI < frFor.to)
  /\ frPc' = "returned"
  /\ UNCHANGED <<frFor, frI, frRuns>>
  /\ UNCHANGED xjVars
  /\ UNCHANGED notFor

\* The caller has the results; a loop is followed for MaxForRuns turns.
ForDone ==
  /\ frPc = "returned" \/ (frPc = "for" /\ frRuns = MaxForRuns)
  /\ frPc' = "idle"
  /\ frFor' = NoFor
  /\ frI' = 0
  /\ frRuns' = 0
  /\ UNCHANGED xjVars
  /\ UNCHANGED notFor

InitFor ==
  /\ frPc = "idle"
  /\ frFor = NoFor
  /\ frI = 0
  /\ frRuns = 0

NextFor ==
  \/ ForEnter
  \/ ForIterate
  \/ ForExit
  \/ ForDone

(***************************************************************************)
(* The specifications: one per subsystem, each over the whole state.       *)
(***************************************************************************)
Init ==
  /\ InitFs
  /\ InitRouter
  /\ InitCodec
  /\ InitStore
  /\ InitSched
  /\ InitKuhul
  /\ InitTribunal
  /\ InitAgents
  /\ InitHistory
  /\ InitConsensus
  /\ InitGlyph
  /\ InitXjson
  /\ InitKlh
  /\ InitGhost
  /\ InitPair
  /\ InitLoop
  /\ InitLoad
  /\ InitTapeSystem
  /\ InitPing
  /\ InitFor

SpecFs == Init /\ [][NextFs]_vars

SpecRouter == Init /\ [][NextRouter]_vars

SpecCodec == Init /\ [][NextCodec]_vars

SpecStore == Init /\ [][NextStore]_vars

SpecSched == Init /\ [][NextSched]_vars

SpecKuhul == Init /\ [][NextKuhul]_vars

SpecTribunal == Init /\ [][NextTribunal]_vars

\* The event loop runs every continuation that is ready.
SpecTribunalLive == Init /\ [][NextTribunal]_vars /\ WF_vars(NextTribunal)

SpecAgents == Init /\ [][NextAgents]_vars

SpecHistory == Init /\ [][NextHistory]_vars

SpecConsensus == Init /\ [][NextConsensus]_vars

SpecGlyph == Init /\ [][NextGlyph]_vars

SpecXjson == Init /\ [][NextXjson]_vars

SpecWhile == Init /\ [][NextWhile]_vars

\* handleWhile runs to its end once it is called.
SpecWhileLive ==
  Init /\ [][NextWhile]_vars /\ WF_vars(WhileIterate) /\ WF_vars(WhileExit)

SpecCount == Init /\ [][NextCount]_vars

SpecKlh == Init /\ [][NextKlh]_vars

SpecGhost == Init /\ [][NextGhost]_vars

SpecPair == Init /\ [][NextPair]_vars

SpecLoop == Init /\ [][NextLoop]_vars

SpecLoad == Init /\ [][NextLoad]_vars

SpecTapeSystem == Init /\ [][NextTapeSystem]_vars

SpecPing == Init /\ [][NextPing]_vars

SpecFor == Init /\ [][NextFor]_vars

Next ==
  \/ NextFs
  \/ NextRouter
  \/ NextCodec
  \/ NextStore
  \/ NextSched
  \/ NextKuhul
  \/ NextTribunal
  \/ NextAgents
  \/ NextHistory
  \/ NextConsensus
  \/ NextGlyph
  \/ NextXjson
  \/ NextWhile
  \/ NextKlh
  \/ NextGhost
  \/ NextPair
  \/ NextLoop
  \/ NextLoad
  \/ NextTapeSystem
  \/ NextPing
  \/ NextCount
  \/ NextFor

Spec == Init /\ [][Next]_vars

(***************************************************************************)
(* Claims about the filesystem handlers and the execution route.           *)
(***************************************************************************)
\* C1: every path a fs_* handler runs a file operation on is the sandbox root
\* or a descendant of it; an input that resolves outside the root is rejected
\* before any file is read, written, copied or deleted.
C1_FsConfined == \A p \in fsTouched : InsideRoot(p)

\* C5: a response with ok = true carries a handler result that is a success;
\* a handler result that reports an error is answered with ok = false.
C5_OkOnlySuccess ==
  fsPc = "responded" => (fsResponse.ok => fsResponse.result.error = NoError)

(***************************************************************************)
(* Claims about the backend routers.                                       *)
(***************************************************************************)
RECURSIVE RemotesOf(_)
RemotesOf(bs) ==
  IF bs = <<>> THEN <<>>
  ELSE (IF Head(bs).remote THEN <<Head(bs).name>> ELSE <<>>) \o RemotesOf(Tail(bs))

RemotesByPriority == RemotesOf(sortedBackends)

\* C2: no call is answered with 'No backend available': the local backend
\* answers whenever every remote backend fails.
C2_NeverNoBackend == rtCall.result # "No backend available"

\* C3: the backends attempted by one call are the remote backends in
\* descending priority, without a gap, up to the one that answered; the local
\* backend answers only after every remote backend was attempted and failed.
C3_DescendingPriority ==
  rtCall.afterInit =>
    LET n == Len(rtCall.attempts) IN
      /\ n <= Len(RemotesByPriority)
      /\ rtCall.attempts = SubSeq(RemotesByPriority, 1, n)
      /\ rtCall.served = "browser-fallback" => n = Len(RemotesByPriority)
      /\ rtCall.served \in RemoteNames => rtCall.attempts[n] = rtCall.served

\* C4: a remote backend that failed a probe or an earlier call, and is
\* reachable when a later call is made, is attempted by that call unless a
\* backend of higher priority answered it: the call does not go to the local
\* fallback without asking it.
C4_NoHealthMemory ==
  \A b \in rtCall.failedBefore :
    (rtCall.afterInit /\ rtCall.status[b] = "up" /\ rtCall.served \notin RemoteNames)
      => \E k \in DOMAIN rtCall.attempts : rtCall.attempts[k] = b

\* C16: the response to every served call carries a backend tag: the value
\* handed back has a field that names the backend which served it.
C16_BackendTagged ==
  rtCall.router # "none" => "backend" \in ResponseFields(rtCall)

(***************************************************************************)
(* Claims about the SCXQ2 codec.                                           *)
(***************************************************************************)
\* C6: whenever scxq2_encode succeeds on x, scxq2_decode of its output with
\* the same mode succeeds and returns data equal to x.
C6_RoundTrip ==
  cdPc = "decoded" => (cdDecoded.success /\ cdDecoded.data = cdInput)

(***************************************************************************)
(* Claims about the store handler.                                         *)
(***************************************************************************)
\* The requests that change what a key holds: set, delete of the key, clear.
WritesTo(key) ==
  {i \in DOMAIN stHistory :
     \/ stHistory[i].action \in {"set", "delete"} /\ stHistory[i].key = key
     \/ stHistory[i].action = "clear"}

LatestWrite(key) == CHOOSE i \in WritesTo(key) : \A j \in WritesTo(key) : j <= i

\* The latest request that changed the key was a set.
HoldsValue(key) ==
  WritesTo(key) # {} /\ stHistory[LatestWrite(key)].action = "set"

\* C7: over any sequence of set / get / delete / list / clear requests with
\* string keys, get(k) succeeds with value v exactly when the latest set on k
\* was set(k, v) and no delete(k) or clear came after it, and fails otherwise;
\* list returns exactly the keys for which get succeeds, each once.
C7_StoreIsMap ==
  /\ stResult.action = "get" =>
       /\ stResult.success <=> HoldsValue(stResult.key)
       /\ stResult.success => stResult.value = stHistory[LatestWrite(stResult.key)].value
  /\ stResult.action = "list" =>
       /\ {stResult.keys[i] : i \in DOMAIN stResult.keys} = {k \in StoreKeys : HoldsValue(k)}
       /\ \A i, j \in DOMAIN stResult.keys : stResult.keys[i] = stResult.keys[j] => i = j

\* A get of a key answered right after a delete of that key, which had been set.
C7_GetAfterDelete ==
  /\ Len(stHistory) >= 3
  /\ stResult.action = "get"
  /\ ~stResult.success
  /\ stHistory[Len(stHistory) - 1] = StoreRequest("delete", stResult.key, "undefined")
  /\ stHistory[Len(stHistory) - 2].action = "set"
  /\ stHistory[Len(stHistory) - 2].key = stResult.key

(***************************************************************************)
(* Claims about the schedulers.                                            *)
(***************************************************************************)
\* The four policy rules, first match wins: cpu, dedicated GPU, integrated
\* GPU, queued.
PolicyDevice(state, job) ==
  IF job.engine = "llama.cpp" /\ state.cpu < policy.cpu_threshold_load THEN "cpu-main"
  ELSE IF job.gpu.type = "dedicated" /\ job.priority > policy.prefer_gpu_for_priority THEN "dgpu-0"
  ELSE IF job.gpu.supports_webgpu /\ state.gpu < 80 THEN "igpu-0"
  ELSE "queued"

\* C8: for every cpu load, gpu load, priority and device profile, and a
\* shard of the cpu-compatible engine, makeRoutingDecision returns the device
\* of the first of the four policy rules that matches, and a queued decision
\* carries the 500 ms delay hint.
C8_FourRules ==
  (scPc = "decided" /\ scJob.engine = "llama.cpp") =>
    /\ scDecision.device = PolicyDevice(systemState, scJob)
    /\ scDecision.device = "queued" => scDecision.delay_ms = 500

\* C9: a job that is queued on every attempt re-enters scheduling at most
\* 8 times.
C9_BoundedRetries == kuRequeues <= 8

(***************************************************************************)
(* Claims about the tribunals.                                             *)
(***************************************************************************)
\* C10: an evaluation that ends with no non-error vote reports the verdict
\* no-quorum, never approve or reject: a session returned by
\* Tribunal.evaluate without votes holds NO_QUORUM, and an answer of
\* agents_tribunal without non-error votes has no final verdict of approve
\* or reject.
C10_NoQuorum ==
  /\ (tbPc = "evaluated" /\ ~tbSession.threw /\ tbSession.votes = <<>>)
       => tbSession.consensus.verdict = "NO_QUORUM"
  /\ (agPc = "answered" /\ NonErrorVotes(agResult.votes) = <<>>)
       => agResult.final_verdict \notin {"approve", "reject"}

\* C11: a tribunal evaluation always completes: an evaluation that waits
\* for a judge that never answers ends with a session all the same.
C11_EvaluationCompletes == (tbPc = "waiting") ~> (tbPc = "evaluated")

\* The verdicts among the votes of a session.
VerdictsOf(votes) == {votes[i].verdict : i \in DOMAIN votes}

\* C15: an evaluation writes exactly one disagreement record, for its own
\* session, when its votes carry at least two distinct verdicts, and writes
\* none when they all carry the same verdict or there are none.
C15_RecordIffSplit ==
  [][(tbPc = "idle" /\ tbPc' # "idle") =>
       IF Cardinality(VerdictsOf(tbSession'.votes)) >= 2
         THEN /\ Len(disagreementLog') = Len(disagreementLog) + 1
              /\ SubSeq(disagreementLog', 1, Len(disagreementLog)) = disagreementLog
              /\ disagreementLog'[Len(disagreementLog')].sessionId = Len(sessions')
         ELSE disagreementLog' = disagreementLog]_vars

\* An evaluation with a split vote has just written its record.
C15_SplitRecorded ==
  /\ tbPc = "evaluated"
  /\ Cardinality(VerdictsOf(tbSession.votes)) >= 2
  /\ disagreementLog # <<>>
  /\ disagreementLog[Len(disagreementLog)].sessionId = Len(sessions)

(***************************************************************************)
(* Claims about the disagreement histories.                                *)
(***************************************************************************)
\* C14: the disagreement history kept in memory by Tribunal and the one kept
\* by DisagreementTracker never hold more than 100 records, and each holds
\* the most recent records in arrival order.
C14_BoundedHistory ==
  /\ Len(disagreementLog) <= 100
  /\ \A i \in DOMAIN disagreementLog :
       disagreementLog[i].sessionId = hsSessions - Len(disagreementLog) + i
  /\ Len(dtDisagreements) <= 100

(***************************************************************************)
(* Claims about the consensus.                                             *)
(***************************************************************************)
\* C12: with at least one vote, the consensus verdict is a verdict with the
\* highest vote count, and the agreement rate, a percentage, is majority
\* count / total votes exactly: rate x total = 100 x majority count.
C12_ExactAgreementRate ==
  cnVotes # <<>> =>
    /\ \A i \in DOMAIN cnVotes :
         CountVerdict(cnVotes, cnVotes[i].verdict)
           <= CountVerdict(cnVotes, cnConsensus.verdict)
    /\ cnConsensus.agreementRate * Len(cnVotes)
         = 100 * CountVerdict(cnVotes, cnConsensus.verdict)

\* C13: with at least one vote, every parsed confidence lies in [0, 1] (here
\* 0 .. 100) and the consensus confidence lies in [0, 1].
C13_ConfidenceInRange ==
  cnVotes # <<>> =>
    /\ \A i \in DOMAIN cnVotes : cnVotes[i].confidence \in 0..100
    /\ cnConsensus.confidence.num >= 0
    /\ cnConsensus.confidence.num <= cnConsensus.confidence.den

(***************************************************************************)
(* Claims about the K'uhul interpreter and the XJSON runtime.              *)
(***************************************************************************)
\* C17: reset leaves every registered function registered with its body
\* unchanged: after XJSONRuntime.reset the functions defined before it are
\* the functions of the runtime.
C17_ResetKeepsFunctions ==
  [][xjLast' = "reset" => xjFunctions' = xjFunctions]_vars

\* The operands a token takes from the stack.
OperandsNeeded(token) ==
  IF token.op = "Chen" THEN 1
  ELSE IF token.op = "Sek" /\ token.name \in BinaryOperations THEN 2
  ELSE IF token.op = "Sek" /\ token.name \in {"not", "print"} THEN 1
  ELSE 0

\* C18: a token that needs more operands than the stack holds fails with
\* stack-underflow and leaves the stack and the variables as they were.
C18_UnderflowFails ==
  [][\A token \in Tokens :
       (kiLast'.call = "execute" /\ kiLast'.code = <<token>>
          /\ Len(kiStack) < OperandsNeeded(token))
         => (kiError' = "stack-underflow" /\ kiStack' = kiStack
               /\ kiVariables' = kiVariables)]_vars

\* a k b, the first operand on the left.
ArithmeticValue(k, a, b) ==
  CASE k = "add" -> Num(a + b, 1)
    [] k = "sub" -> Num(a - b, 1)
    [] k = "mul" -> Num(a * b, 1)
    [] k = "div" -> Fraction(a, b)
    [] k = "gt"  -> Bool(a > b)
    [] k = "lt"  -> Bool(a < b)
    [] k = "eq"  -> Bool(a = b)

\* C19: [Wo a][Wo b][Sek k][Ch'en x] succeeds, binds x to a k b and leaves the
\* stack as deep as it was.
C19_ArithmeticStored ==
  [][\A a \in NumberLiterals, b \in NumberLiterals,
        k \in ArithmeticOperations, x \in VariableNames :
       (kiLast'.call = "execute" /\ kiLast'.code = ArithmeticCode(a, b, k, x))
         => (kiError' = "none" /\ ObjectGet(kiVariables', x) = ArithmeticValue(k, a, b)
               /\ Len(kiStack') = Len(kiStack))]_vars

\* C20: an @while whose condition holds at every test is left: it processes
\* its @do once per iteration, never more than 10000 times, and it is
\* left by failing with loop-limit after exactly 10000 iterations.
C20_LoopLimit ==
  /\ [](xjPc = "while" =>
          /\ xjIterations <= maxIterations
          /\ xjWhile.do # NoNode => xjBodyRuns = xjIterations)
  /\ [][(xjPc = "while" /\ xjPc' # "while"
           /\ evaluateCondition(xjWhile.condition, xjVariables, kiVariables))
          => (xjPc' = "failed" /\ xjError' = "loop-limit"
                /\ xjIterations' = maxIterations
                /\ (xjWhile.do # NoNode => xjBodyRuns' = maxIterations))]_vars
  /\ (xjPc = "while") ~> (xjPc # "while")

C20_FailedAtLimit ==
  /\ xjPc = "failed"
  /\ xjError = "loop-limit"
  /\ xjWhile.do # NoNode
  /\ xjBodyRuns = maxIterations

\* C21: after [Pop name] token_1 ... token_n [Xul] the function table maps
\* name to the tokens token_1 ... token_n.
C21_BodyRecorded ==
  [][\A a \in NumberLiterals, b \in NumberLiterals :
       LET body == ArithmeticCode(a, b, "add", "x") IN
         (kiLast'.call = "execute" /\ kiLast'.code = FunctionCode("main", body))
           => (ObjectHas(kiFunctions', "main") /\ kiFunctions'["main"] = body)]_vars

\* C22: [Sek div] with zero on top of the stack fails with division-by-zero
\* and leaves the stack as it was.
C22_DivisionByZero ==
  [][(kiLast'.call = "execute" /\ kiLast'.code = <<Token("Sek", "div", Null)>>
        /\ Len(kiStack) >= 2 /\ Top(kiStack) = Num(0, 1))
       => (kiError' = "division-by-zero" /\ kiStack' = kiStack)]_vars

(***************************************************************************)
(* Claims about the KLH orchestrator.                                      *)
(***************************************************************************)
\* C23: mounting a tape on the hive it is mounted on changes nothing: the
\* tapes, the hives, the routes and the agents are as before the call.
C23_MountIdempotent ==
  [][\A tapeId \in TapeIds, hiveId \in HiveIds :
       (klLast' = KlhCall("mountTape", tapeId, hiveId, "")
          /\ tapeId \in DOMAIN klTapes
          /\ klTapes[tapeId].status = "mounted" /\ klTapes[tapeId].hiveId = hiveId)
         => (klTapes' = klTapes /\ klHives' = klHives
               /\ klRoutes' = klRoutes /\ klAgents' = klAgents)]_vars

\* C24: a request is routed, and a task delegated, only to a tape that is
\* mounted.
C24_UnmountedRefuses ==
  /\ (klLast.call = "route" /\ klError = "none")
       => klTapes[klRoutes[<<klLast.hive, klLast.target>>].tapeId].status = "mounted"
  /\ (klLast.call = "delegateTask" /\ klError = "none")
       => klTapes[klAgents[klLast.target].tapeId].status = "mounted"

\* C28: after a successful unmountTape(t) no hive has t in its tape set, and t
\* is unmounted with no hive.
C28_UnmountLeavesNoHive ==
  [][\A tapeId \in TapeIds :
       (klLast' = KlhCall("unmountTape", tapeId, "", "") /\ klError' = "none")
         => /\ klTapes'[tapeId].status = "unmounted"
            /\ klTapes'[tapeId].hiveId = "null"
            /\ \A h \in DOMAIN klHives' : tapeId \notin klHives'[h].tapes]_vars

(***************************************************************************)
(* Claims about the tape registry and the proxy.                           *)
(***************************************************************************)
\* C25: of the tape directories of a scan that declare the same identifier
\* the first is the one registered.
C25_FirstTapeKept ==
  ghRegistry.loaded =>
    \A i \in DOMAIN ghScanned :
      (\A j \in 1..(i - 1) : ghScanned[j].id # ghScanned[i].id)
        => ghRegistry.tapes[ghScanned[i].id].path = ghScanned[i].dir

\* C26: a chain of proxy calls ends after at most 8 forwards.
C26_HopLimit == ghForwards <= 8

(***************************************************************************)
(* Claims about the two store handlers.                                    *)
(***************************************************************************)
\* C27: after the same requests from empty stores, the last request was
\* answered alike by the server and by the browser fallback: the same success
\* flag, key, value and key list.
C27_StoresAgree == spServerAnswer = spBrowserAnswer

\* C29: all judges of a tribunal are dispatched before the tribunal waits
\* for any judge's answer: while agents_tribunal awaits a judge, the
\* evaluation of every known judge of its list has been requested.
C29_AllDispatchedFirst ==
  jlPc = "awaiting"
    => Len(jlDispatched) = Len(SelectSeq(jlJudges, LAMBDA j : j \in jlAgents))

\* C30: a judge result that arrives after the judge's deadline is dropped:
\* the judge whose timer won its race stays recorded with the verdict
\* error, is not counted in the consensus, and the step in which its late
\* result arrives changes neither the votes nor the answer of the call
\* that is running then.
C30_LateResultDropped ==
  /\ [](\A k \in jlElapsed :
          k \in DOMAIN jlVotes /\ jlVotes[k].verdict = "error")
  /\ [](jlPc = "answered"
          => /\ jlResult.votes = jlVotes
             /\ jlResult.consensus.den <= Len(jlVotes) - Cardinality(jlElapsed))
  /\ [][(\E loser \in jlLosers :
           loser.promise = "evaluation" /\ loser \notin jlLosers')
          => UNCHANGED <<jlPc, jlIndex, jlVotes, jlElapsed, jlResult>>]_vars

\* A call has answered with a judge that timed out, and every late result
\* has arrived.
C30_LateResultArrived ==
  /\ jlPc = "answered"
  /\ jlElapsed # {}
  /\ jlLosers = {}
  /\ Len(jlVotes) = 2

\* C31: concurrent requests never observe a partially loaded tape
\* registry: every result of ghost_list, ghost_get, ghost_launch and
\* ghost_status is computed from a complete scan of the tapes directory.
C31_CompleteRegistry ==
  ldAnswer.handler \in RegistryReaders => ldAnswer.tapes = CompleteScan

\* C32: no shard is attempted twice for the same job: once the routed
\* shard has failed and the fallback is being executed (an activation of
\* scheduleRombosJob is in its catch block), the job is not routed to the
\* original shard again, that is, no further activation of
\* scheduleRombosJob is in its try block for it.
C32_NoShardTwice ==
  \A i \in DOMAIN scStack : \A j \in DOMAIN scStack :
    (i < j /\ scStack[i].phase = "catch") => scStack[j].phase # "try"

\* C33: a job whose result is returned to the caller as a success,
\* including a success obtained on the fallback shard, is counted as
\* successful: when the top-level scheduleRombosJob call has returned a
\* result, successful_jobs has been increased.
C33_SuccessCounted ==
  (scPc = "done" /\ scOutcome.ok) => metrics.successful_jobs >= 1

\* C34: Tribunal.evaluate with an empty slate of online judges fails and
\* leaves the tribunal state unchanged: the step of a call that throws
\* records no session and changes no judge statistic and no disagreement.
C34_FailureLeavesState ==
  [][(tbPc = "idle" /\ tbPc' = "evaluated" /\ tbSession'.threw)
       => UNCHANGED <<sessions, judges, disagreementLog>>]_vars

\* C35: a tape id is in hive h's tape set if and only if the tape's hiveId
\* is h and its status is mounted; hence a tape is in at most one hive's
\* tape set.
C35_TapeSetsMatchTapes ==
  \A h \in DOMAIN klHives : \A t \in TapeIds :
    t \in klHives[h].tapes
      <=> (t \in DOMAIN klTapes /\ klTapes[t].hiveId = h /\ klTapes[t].status = "mounted")

\* C36: unloadTape(t) on a tape that was mounted through mountToHive
\* unmounts it: after an unloadTape that returned true the orchestrator
\* does not hold t as mounted and t is in no hive's tape set.
C36_UnloadUnmounts ==
  \A t \in TapeIds :
    (tsLast = KlhCall("unloadTape", t, "", "") /\ tsError = "none")
      => /\ t \in DOMAIN klTapes => klTapes[t].status # "mounted"
         /\ \A h \in DOMAIN klHives : t \notin klHives[h].tapes

\* C37: mountToHive is all-or-nothing: a call that fails leaves the
\* registry of the orchestrator as it was before the call.
C37_FailedMountChangesNothing ==
  [][(tsLast'.call = "mountToHive" /\ tsError' # "none" /\ tsLast' # tsLast)
       => UNCHANGED <<klHives, klTapes, klRoutes, klAgents>>]_vars

\* C38: Tribunal.evaluate never fails with 'no judges online' while a
\* configured judge is reachable: an evaluate that failed so was called
\* when no judge could be reached.
C38_NoJudgesOnlyIfNoneReachable ==
  jpOutcome.error = "no-judges-online" => jpOutcome.reachable = {}

\* C40: an @while fails with the loop-limit error only if its condition
\* still holds after 10000 executions of the body: a loop that is left with
\* its condition false after at most 10000 turns returns its results
\* without an error.
C40_LimitOnlyIfConditionHolds ==
  [][(xjPc = "while" /\ xjPc' # "while" /\ xjIterations <= maxIterations
        /\ kiError' = "none"
        /\ ~evaluateCondition(xjWhile.condition, xjVariables, kiVariables))
       => (xjPc' = "returned" /\ xjError' = "none")]_vars

\* C39: every @for loop terminates, for all numeric values of from, to and
\* step: every turn of the loop brings i nearer to to, so that the body is
\* executed at most to - from times.
C39_ForTerminates ==
  /\ [][(frPc = "for" /\ frRuns' = frRuns + 1)
          => frFor.to - frI' < frFor.to - frI]_vars
  /\ [](frPc = "for" /\ frFor.from < frFor.to
          => frRuns <= frFor.to - frFor.from)

====
